---------------------------- MODULE Spec2Model ----------------------------
(***************************************************************************)
(* A model of the two algorithmic cores of the component library:          *)
(*   - the route pattern resolver, src/src/composables/useRoutes.ts        *)
(*   - the responsive settings resolver,                                   *)
(*     src/src/composables/useScrollAnimation.ts (useResponsiveSettings)   *)
(*                                                                         *)
(* Strings of the program are sequences of one-character strings, so that  *)
(* matching, escaping and encoding are computed character by character.    *)
(* A value that may be null or undefined is a record: null, undefined,     *)
(* Str(s) for the string s, Obj(kv) for the object whose own properties    *)
(* are the <<key, value>> pairs kv, in insertion order.  An exception that *)
(* leaves a function is the record  [tag |-> "throw", ...] .               *)
(***************************************************************************)
EXTENDS Integers, Sequences, FiniteSets, TLC

VARIABLES
    \* ---- useRoutes() instance state (useRoutes.ts:32-37)
    homepage,       \* ref: null or [code, url, page_uuid]
    pages,          \* ref: sequence of RoutePageItem
    collections,    \* ref: sequence of RouteCollectionItem
    isLoaded,       \* ref<boolean>
    isLoading,      \* ref<boolean>
    error,          \* ref: null or an Error
    \* ---- the asynchronous environment of loadRoutes
    fetches,        \* number of api.getRoutes() requests in flight
    fetchCount,     \* number of api.getRoutes() requests issued so far
    pc,             \* per caller: where it stands around `await loadRoutes()`
    microtasks,     \* FIFO of callers whose awaited promise is already resolved
    \* ---- the last public call made on the resolver and what it returned
    lastCall,
    \* ---- responsive settings resolver
    window,             \* undefined where there is no viewport, else
                        \* [innerWidth, resizeListeners]
    currentBreakpoint,  \* shared ref (useScrollAnimation.ts:117)
    isInitialized,      \* module flag (useScrollAnimation.ts:118)
    listenerCount,      \* module counter (useScrollAnimation.ts:119)
    mounted,            \* the consumers whose onMounted hook has run
    resizePending,      \* a resize event is queued and not yet dispatched
    lastMerge,          \* the last settings call and its result
    \* ---- components that use the composables
    routeInstances,     \* per renderer: the state of its own useRoutes() call
    routeRequests,      \* api.getRoutes() requests issued by all renderers
    dynamicPage,        \* DynamicPageResolver: its refs and pending calls
    collectionView,     \* useCollection: its refs and requests in flight
    scrollAnimation     \* per widget: the refs and the observer of its
                        \* useScrollAnimation() call

routeVars == <<homepage, pages, collections, isLoaded, isLoading, error>>
asyncVars == <<fetches, fetchCount, pc, microtasks>>
viewVars == <<window, currentBreakpoint, isInitialized, listenerCount,
              mounted, resizePending>>
settingsVars == <<viewVars, lastMerge>>
compVars == <<routeInstances, routeRequests, dynamicPage, collectionView,
              scrollAnimation>>
vars == <<homepage, pages, collections, isLoaded, isLoading, error,
          fetches, fetchCount, pc, microtasks, lastCall,
          window, currentBreakpoint, isInitialized, listenerCount,
          mounted, resizePending, lastMerge,
          routeInstances, routeRequests, dynamicPage, collectionView,
          scrollAnimation>>

null == [null |-> TRUE]
undefined == [undefined |-> TRUE]
Str(s) == [t |-> "string", s |-> s]
Obj(kv) == [t |-> "object", o |-> kv]

\* obj[key] of an object given by its pairs: undefined when the key is absent
Prop(kv, key) ==
    LET hits == {i \in 1..Len(kv) : kv[i][1] = key}
    IN IF hits = {} THEN undefined ELSE kv[CHOOSE i \in hits : TRUE][2]

\* the pairs with key set to value: a new key goes last
SetProp(kv, key, value) ==
    IF \E i \in 1..Len(kv) : kv[i][1] = key
    THEN [i \in 1..Len(kv) |-> IF kv[i][1] = key THEN <<key, value>> ELSE kv[i]]
    ELSE Append(kv, <<key, value>>)

\* !x
Falsy(x) == x = null \/ x = undefined \/ x = Str(<<>>)

\* a || b
Or(a, b) == IF Falsy(a) THEN b ELSE a

(***************************************************************************)
(* Characters and strings                                                  *)
(***************************************************************************)
Letters == {"a", "b", "c", "d", "e", "f", "g", "h", "i", "j", "k", "l", "m",
            "n", "o", "p", "q", "r", "s", "t", "u", "v", "w", "x", "y", "z",
            "A", "B", "C", "D", "E", "F"}
Digits == {"0", "1", "2", "3", "4", "5", "6", "7", "8", "9"}
\* \w of a JavaScript regular expression
WordChars == Letters \cup Digits \cup {"_"}
\* the characters the character class of patternToRegex's first replace matches,
\* braces excepted: the callback returns those unescaped
EscapedChars == {".", "*", "+", "?", "^", "$", "(", ")", "|", "[", "]", "\\"}

DigitValue(c) ==
    CASE c = "0" -> 0 [] c = "1" -> 1 [] c = "2" -> 2 [] c = "3" -> 3
      [] c = "4" -> 4 [] c = "5" -> 5 [] c = "6" -> 6 [] c = "7" -> 7
      [] c = "8" -> 8 [] c = "9" -> 9

RECURSIVE Concat(_)
\* the concatenation of a sequence of strings
Concat(ss) == IF ss = <<>> THEN <<>> ELSE Head(ss) \o Concat(Tail(ss))

\* s.startsWith(t) at position i (1-based)
StartsWithAt(s, t, i) ==
    /\ i + Len(t) - 1 <= Len(s)
    /\ \A k \in 1..Len(t) : s[i + k - 1] = t[k]

\* String.prototype.indexOf: the first position where t occurs in s, 0 if none
IndexOf(s, t) ==
    IF \E i \in 1..(Len(s) + 1) : StartsWithAt(s, t, i)
    THEN CHOOSE i \in 1..(Len(s) + 1) :
            /\ StartsWithAt(s, t, i)
            /\ \A k \in 1..(i - 1) : ~StartsWithAt(s, t, k)
    ELSE 0

\* String.prototype.replace(t, r) with a string t: the first occurrence only
ReplaceFirst(s, t, r) ==
    LET i == IndexOf(s, t)
    IN IF i = 0 THEN s
       ELSE SubSeq(s, 1, i - 1) \o r \o SubSeq(s, i + Len(t), Len(s))

(***************************************************************************)
(* encodeURIComponent, per character: the unreserved characters are kept,  *)
(* every other character becomes the %XX of its UTF-8 byte.                *)
(***************************************************************************)
Unreserved == WordChars \cup {"-", ".", "!", "~", "*", "'", "(", ")"}

EncodeChar(c) ==
    IF c \in Unreserved THEN <<c>>
    ELSE CASE c = " "  -> <<"%", "2", "0">>
           [] c = "/"  -> <<"%", "2", "F">>
           [] c = "%"  -> <<"%", "2", "5">>
           [] c = "{"  -> <<"%", "7", "B">>
           [] c = "}"  -> <<"%", "7", "D">>
           [] c = ","  -> <<"%", "2", "C">>
           [] c = "?"  -> <<"%", "3", "F">>
           [] c = "+"  -> <<"%", "2", "B">>
           [] c = "$"  -> <<"%", "2", "4">>

encodeURIComponent(s) == Concat([i \in 1..Len(s) |-> EncodeChar(s[i])])


(***************************************************************************)
(* Placeholder scanning: the regular expression /\{(\w+)\}/g, used by      *)
(* extractParams on the pattern and by patternToRegex on the escaped       *)
(* pattern.  A unit is one character of the pattern together with whether  *)
(* patternToRegex's first replace put a backslash before it.               *)
(***************************************************************************)
Raw(s) == [i \in 1..Len(s) |-> [c |-> s[i], esc |-> FALSE]]

IsRaw(units, i, ch) == i <= Len(units) /\ ~units[i].esc /\ units[i].c = ch

RECURSIVE WordRunEnd(_, _)
\* the first position at or after i that holds no \w character
WordRunEnd(units, i) ==
    IF i <= Len(units) /\ ~units[i].esc /\ units[i].c \in WordChars
    THEN WordRunEnd(units, i + 1)
    ELSE i

\* the position of the closing brace of a {name} token that starts at i, else 0
PlaceholderEnd(units, i) ==
    LET j == WordRunEnd(units, i + 1)
    IN IF IsRaw(units, i, "{") /\ j > i + 1 /\ IsRaw(units, j, "}") THEN j ELSE 0

RECURSIVE ScanPlaceholders(_, _)
\* the units from i on, with every {name} token (leftmost first, not
\* overlapping) turned into one placeholder item
ScanPlaceholders(units, i) ==
    IF i > Len(units) THEN <<>>
    ELSE LET j == PlaceholderEnd(units, i)
         IN IF j # 0
            THEN <<[k |-> "ph",
                    name |-> [n \in 1..(j - i - 1) |-> units[i + n].c]]>>
                 \o ScanPlaceholders(units, j + 1)
            ELSE <<[k |-> "ch", c |-> units[i].c, esc |-> units[i].esc]>>
                 \o ScanPlaceholders(units, i + 1)

RECURSIVE PlaceholderNames(_)
PlaceholderNames(items) ==
    IF items = <<>> THEN <<>>
    ELSE (IF Head(items).k = "ph" THEN <<Head(items).name>> ELSE <<>>)
         \o PlaceholderNames(Tail(items))


RECURSIVE WithoutRepeats(_)
WithoutRepeats(names) ==
    IF names = <<>> THEN <<>>
    ELSE LET rest == WithoutRepeats(SubSeq(names, 1, Len(names) - 1))
             last == names[Len(names)]
         IN IF \E k \in 1..Len(rest) : rest[k] = last THEN rest
            ELSE Append(rest, last)

\* the names of the {name} tokens, each name once
extractParamsOnce(pattern) ==
    WithoutRepeats(PlaceholderNames(ScanPlaceholders(Raw(pattern), 1)))

\* extractParams: the names of the {name} tokens, in order, one per occurrence
extractParams(pattern) == PlaceholderNames(ScanPlaceholders(Raw(pattern), 1))

(***************************************************************************)
(* patternToRegex                                                          *)
(***************************************************************************)
\* first replace: a backslash before every special character but { and }
EscapeSpecial(pattern) ==
    [i \in 1..Len(pattern) |->
        [c |-> pattern[i], esc |-> pattern[i] \in EscapedChars]]

(***************************************************************************)
(* new RegExp('^' + regexStr + '$'): the items become the elements of the  *)
(* expression.  An element is an atom (one literal character, or the group *)
(* (?<name>[^/]+)) with the number of times it repeats.  An unescaped      *)
(* {n,} or {n,m} is a quantifier of the element before it; any other       *)
(* unescaped brace is a literal (Annex B of ECMA-262).  max = -1: no upper *)
(* limit.                                                                  *)
(***************************************************************************)
SyntaxError == [tag |-> "throw", err |-> "SyntaxError"]

IsRawItem(items, i, ch) ==
    i <= Len(items) /\ items[i].k = "ch" /\ ~items[i].esc /\ items[i].c = ch

RECURSIVE DigitRunEnd(_, _)
DigitRunEnd(items, i) ==
    IF i <= Len(items) /\ items[i].k = "ch" /\ ~items[i].esc
       /\ items[i].c \in Digits
    THEN DigitRunEnd(items, i + 1)
    ELSE i

RECURSIVE DecimalValue(_, _, _)
\* the value of the digits at positions i..j-1
DecimalValue(items, i, j) ==
    IF i >= j THEN 0
    ELSE DecimalValue(items, i, j - 1) * 10 + DigitValue(items[j - 1].c)

\* a braced quantifier {n,} or {n,m} starting at item i: [end, min, max],
\* or null.  ({n} never reaches here: it is a {name} token.)
QuantifierAt(items, i) ==
    LET d1 == DigitRunEnd(items, i + 1)
        d2 == DigitRunEnd(items, d1 + 1)
    IN IF IsRawItem(items, i, "{") /\ d1 > i + 1 /\ IsRawItem(items, d1, ",")
          /\ IsRawItem(items, d2, "}")
       THEN [end |-> d2,
             min |-> DecimalValue(items, i + 1, d1),
             max |-> IF d2 = d1 + 1 THEN -1
                     ELSE DecimalValue(items, d1 + 1, d2)]
       ELSE null

RECURSIVE CompileFrom(_, _, _)
CompileFrom(items, i, els) ==
    IF i > Len(items) THEN [tag |-> "regex", els |-> els]
    ELSE LET it == items[i]
             q == QuantifierAt(items, i)
         IN IF it.k = "ph"
            THEN IF it.name[1] \in Digits
                    \/ \E e \in 1..Len(els) :
                          els[e].k = "grp" /\ els[e].name = it.name
                 THEN SyntaxError  \* invalid or duplicate capture group name
                 ELSE CompileFrom(items, i + 1,
                        Append(els, [k |-> "grp", name |-> it.name, c |-> "",
                                     min |-> 1, max |-> 1, q |-> FALSE]))
            ELSE IF q # null
            THEN IF els = <<>> \/ els[Len(els)].q
                    \/ (q.max # -1 /\ q.max < q.min)
                 THEN SyntaxError  \* nothing to repeat / numbers out of order
                 ELSE CompileFrom(items, q.end + 1,
                        [els EXCEPT ![Len(els)] =
                            [@ EXCEPT !.min = q.min, !.max = q.max, !.q = TRUE]])
            ELSE CompileFrom(items, i + 1,
                        Append(els, [k |-> "lit", name |-> <<>>, c |-> it.c,
                                     min |-> 1, max |-> 1, q |-> FALSE]))

\* patternToRegex(pattern): the compiled expression, or the SyntaxError that
\* new RegExp throws
patternToRegex(pattern) ==
    CompileFrom(ScanPlaceholders(EscapeSpecial(pattern), 1), 1, <<>>)

RECURSIVE GroupsOf(_)
\* the named groups of the elements, each undefined before any match
GroupsOf(els) ==
    IF els = <<>> THEN <<>>
    ELSE (IF Head(els).k = "grp" THEN << <<Head(els).name, undefined>> >>
          ELSE <<>>)
         \o GroupsOf(Tail(els))

(***************************************************************************)
(* String.prototype.match(regex) for an expression anchored at both ends:  *)
(* backtracking, each element greedy.                                      *)
(***************************************************************************)
NoMatch == [ok |-> FALSE]

RECURSIVE NonSlashRunEnd(_, _)
NonSlashRunEnd(s, j) ==
    IF j <= Len(s) /\ s[j] # "/" THEN NonSlashRunEnd(s, j + 1) ELSE j

RECURSIVE MatchFrom(_, _, _, _, _, _)
RECURSIVE TryGroup(_, _, _, _, _, _, _)

\* elements i.. of els against s from position j, after n repetitions of
\* element i; caps are the captures so far
MatchFrom(els, i, n, s, j, caps) ==
    IF i > Len(els)
    THEN IF j = Len(s) + 1 THEN [ok |-> TRUE, caps |-> caps] ELSE NoMatch
    ELSE LET e == els[i]
             again ==
                IF e.max # -1 /\ n >= e.max THEN NoMatch
                ELSE IF e.k = "lit"
                THEN IF j <= Len(s) /\ s[j] = e.c
                     THEN MatchFrom(els, i, n + 1, s, j + 1, caps)
                     ELSE NoMatch
                ELSE TryGroup(els, i, n, s, j, caps, NonSlashRunEnd(s, j) - j)
         IN IF again.ok THEN again
            ELSE IF n >= e.min THEN MatchFrom(els, i + 1, 0, s, j, caps)
            ELSE NoMatch

\* the group [^/]+ taking len characters, then fewer
TryGroup(els, i, n, s, j, caps, len) ==
    IF len < 1 THEN NoMatch
    ELSE LET r == MatchFrom(els, i, n + 1, s, j + len,
                     SetProp(caps, els[i].name,
                             Str(SubSeq(s, j, j + len - 1))))
         IN IF r.ok THEN r ELSE TryGroup(els, i, n, s, j, caps, len - 1)

\* s.match(regex): null, or the match with its groups (undefined when the
\* expression has no named group)
StringMatch(s, regex) ==
    LET groups == GroupsOf(regex.els)
        r == MatchFrom(regex.els, 1, 0, s, 1, groups)
    IN IF ~r.ok THEN null
       ELSE [groups |-> IF groups = <<>> THEN undefined ELSE Obj(r.caps)]

(***************************************************************************)
(* resolve (useRoutes.ts:91-140)                                           *)
(***************************************************************************)
normalizePath(path) ==
    IF Len(path) >= 1 /\ path[1] = "/" THEN path ELSE <<"/">> \o path

ResolvedRoute(code, uuid, params, home) ==
    [tag |-> "route", pageCode |-> code, pageUuid |-> uuid,
     params |-> params, isHomepage |-> home]

NoParams == Obj(<<>>)

\* the index of the first static page whose url is p, 0 if there is none
FirstStatic(p) ==
    LET hits == {i \in 1..Len(pages) :
                    Falsy(pages[i].pattern) /\ pages[i].url = Str(p)}
    IN IF hits = {} THEN 0 ELSE CHOOSE i \in hits : \A k \in hits : i <= k

RECURSIVE DynamicFrom(_, _)
\* the second loop over pages, from index i on
DynamicFrom(p, i) ==
    IF i > Len(pages) THEN null
    ELSE IF Falsy(pages[i].pattern) THEN DynamicFrom(p, i + 1)
    ELSE LET regex == patternToRegex(pages[i].pattern.s)
         IN IF regex.tag = "throw" THEN regex
            ELSE LET match == StringMatch(p, regex)
                 IN IF match # null /\ match.groups # undefined
                    THEN ResolvedRoute(pages[i].code, pages[i].page_uuid,
                                       match.groups, FALSE)
                    ELSE DynamicFrom(p, i + 1)

\* lines 97-139: the body of resolve once the table is loaded
ResolveLoaded(path) ==
    LET p == normalizePath(path)
        s == FirstStatic(p)
    IN IF homepage # null /\ (p = <<"/">> \/ Str(p) = homepage.url)
       THEN ResolvedRoute(homepage.code, homepage.page_uuid, NoParams, TRUE)
       ELSE IF s # 0
       THEN ResolvedRoute(pages[s].code, pages[s].page_uuid, NoParams, FALSE)
       ELSE DynamicFrom(p, 1)

\* a resolve that raises when the table is not loaded
resolveRaisingWhenNotReady(path) ==
    IF ~isLoaded THEN [tag |-> "throw", err |-> "Error"] ELSE ResolveLoaded(path)

resolve(path) ==
    IF ~isLoaded THEN null ELSE ResolveLoaded(path)

(***************************************************************************)
(* buildUrl (useRoutes.ts:145-182)                                         *)
(***************************************************************************)
Braced(name) == <<"{">> \o name \o <<"}">>

\* Array.prototype.find(p => p.code === code): the index, 0 if none
FindPage(code) ==
    LET hits == {i \in 1..Len(pages) : pages[i].code = code}
    IN IF hits = {} THEN 0 ELSE CHOOSE i \in hits : \A k \in hits : i <= k

RECURSIVE SubstituteFrom(_, _, _, _)
\* the loop over requiredParams, from index i on, url being built so far
SubstituteFrom(url, required, i, params) ==
    IF i > Len(required) THEN Str(url)
    ELSE LET value == Prop(params.o, required[i])
         IN IF Falsy(value) THEN null
            ELSE SubstituteFrom(
                    ReplaceFirst(url, Braced(required[i]),
                                 encodeURIComponent(value.s)),
                    required, i + 1, params)

buildUrl(pageCode, params) ==
    IF ~isLoaded THEN null
    ELSE IF homepage # null /\ homepage.code = pageCode THEN Str(<<"/">>)
    ELSE LET i == FindPage(pageCode)
         IN IF i = 0 THEN null
            ELSE IF Falsy(pages[i].pattern) THEN pages[i].url
            ELSE SubstituteFrom(pages[i].pattern.s,
                                extractParams(pages[i].pattern.s), 1, params)

(***************************************************************************)
(* buildEntryUrl (useRoutes.ts:187-252).  An entry is [entry_id, data]:    *)
(* entry_id a Str or undefined, data an Obj of field values (each a Str or *)
(* an Obj keyed by language) or undefined.                                 *)
(***************************************************************************)
\* Object.values(obj)[0]
FirstValue(kv) == IF kv = <<>> THEN undefined ELSE kv[1][2]

\* fieldValue[language] || fieldValue.pl || Object.values(fieldValue)[0] || ''
Multilingual(kv, language) ==
    Or(Or(Or(Prop(kv, language), Prop(kv, <<"p", "l">>)), FirstValue(kv)),
       Str(<<>>))

\* extractMultilingualValue (useScrollAnimation.ts:426-450)
extractMultilingualValue(value, language) ==
    IF value \in {undefined, null} THEN Str(<<>>)
    ELSE IF value.t # "object" THEN value
    ELSE LET obj == value.o
         IN IF Prop(obj, language) \notin {undefined, null}
            THEN Prop(obj, language)
            ELSE IF Prop(obj, <<"p", "l">>) \notin {undefined, null}
            THEN Prop(obj, <<"p", "l">>)
            ELSE IF Len(obj) > 0 THEN obj[1][2]
            ELSE Str(<<>>)

FindCollection(code) ==
    LET hits == {i \in 1..Len(collections) : collections[i].code = code}
    IN IF hits = {} THEN 0 ELSE CHOOSE i \in hits : \A k \in hits : i <= k

\* entry.data[key], for the places that first test entry.data
DataField(entry, key) ==
    IF Falsy(entry.data) THEN undefined ELSE Prop(entry.data.o, key)

\* the switch of the first loop: the value stored for one placeholder name,
\* undefined when nothing is stored
ParamValue(param, collection, entry, language) ==
    CASE param = <<"l", "a", "n", "g">> -> Str(language)
      [] param = <<"s", "l", "u", "g">> ->
            IF ~Falsy(collection.entry_url_field) /\ ~Falsy(entry.data)
            THEN LET fieldValue ==
                        Prop(entry.data.o, collection.entry_url_field.s)
                 IN IF ~Falsy(fieldValue) /\ fieldValue.t = "object"
                    THEN Multilingual(fieldValue.o, language)
                    ELSE Or(Or(fieldValue, entry.entry_id), Str(<<>>))
            ELSE Or(entry.entry_id, Str(<<>>))
      [] param = <<"e", "n", "t", "r", "y", "_", "i", "d">> ->
            Or(entry.entry_id, Str(<<>>))
      [] OTHER ->
            LET value == DataField(entry, param)
            IN IF Falsy(value) THEN undefined
               ELSE IF value.t = "object"
               THEN Multilingual(value.o, language)
               ELSE value

RECURSIVE EntrySubstituteFrom(_, _, _, _, _, _)
\* the second loop: every placeholder replaced, null at the first one that
\* has no value
EntrySubstituteFrom(url, params, i, collection, entry, language) ==
    IF i > Len(params) THEN Str(url)
    ELSE LET value == ParamValue(params[i], collection, entry, language)
         IN IF Falsy(value) THEN null
            ELSE EntrySubstituteFrom(
                    ReplaceFirst(url, Braced(params[i]),
                                 encodeURIComponent(value.s)),
                    params, i + 1, collection, entry, language)

buildEntryUrl(collectionCode, entry, language) ==
    IF ~isLoaded THEN null
    ELSE LET i == FindCollection(collectionCode)
         IN IF i = 0 \/ Falsy(collections[i].entry_url_pattern) THEN null
            ELSE EntrySubstituteFrom(collections[i].entry_url_pattern.s,
                    extractParams(collections[i].entry_url_pattern.s), 1,
                    collections[i], entry, language)

(***************************************************************************)
(* loadRoutes (useRoutes.ts:42-60) and its callers.                        *)
(*                                                                         *)
(* A caller runs `await loadRoutes()`.  The call runs synchronously up to  *)
(* its return or to `await api.getRoutes()`; when the request settles, the *)
(* rest of loadRoutes runs in one piece and the caller's continuation is   *)
(* the next microtask.  No other code runs between a promise's resolution  *)
(* and the continuation that awaits it.                                    *)
(***************************************************************************)
Callers == {"c1", "c2"}

MaxFetches == 3

\* a guard that forgets the load in progress
OnlyLoaded == isLoaded

\* a guard that forgets the table already loaded
OnlyLoading == isLoading

\* the guard of line 43
AlreadyLoadedOrLoading == isLoaded \/ isLoading

LoadError == [message |-> "Failed to load routes"]

NoCall == [op |-> "none"]

\* loadRoutes() runs up to its return or to its await (lines 43-49) and the
\* caller c waits for the promise it returned
loadRoutes(c) ==
    /\ pc[c] = "idle"
    /\ microtasks = <<>>
    /\ pc' = [pc EXCEPT ![c] = "awaiting"]
    /\ IF AlreadyLoadedOrLoading
       THEN /\ microtasks' = <<[caller |-> c, settled |-> "fulfilled"]>>
            /\ UNCHANGED <<routeVars, fetches, fetchCount>>
       ELSE /\ fetchCount < MaxFetches
            /\ isLoading' = TRUE
            /\ error' = null
            /\ fetches' = fetches \cup {c}
            /\ fetchCount' = fetchCount + 1
            /\ UNCHANGED <<homepage, pages, collections, isLoaded, microtasks>>

\* `await loadRoutes()` starts
CallLoadRoutes(c) ==
    /\ loadRoutes(c)
    /\ UNCHANGED <<lastCall, settingsVars, compVars>>

\* the request of caller c's loadRoutes call fulfils with a routes payload:
\* lines 50-53, then finally (line 58), then the function returns
FetchFulfil(c, table) ==
    /\ c \in fetches
    /\ microtasks = <<>>
    /\ homepage' = table.homepage
    /\ pages' = table.pages
    /\ collections' = table.collections
    /\ isLoaded' = TRUE
    /\ isLoading' = FALSE
    /\ fetches' = fetches \ {c}
    /\ microtasks' = <<[caller |-> c, settled |-> "fulfilled"]>>
    /\ UNCHANGED <<error, fetchCount, pc, lastCall, settingsVars, compVars>>

\* a rejection handled without the finally clause
FetchRejectWithoutFinally(c) ==
    /\ c \in fetches
    /\ microtasks = <<>>
    /\ error' = LoadError
    /\ fetches' = fetches \ {c}
    /\ microtasks' = <<[caller |-> c, settled |-> "fulfilled"]>>
    /\ UNCHANGED <<homepage, pages, collections, isLoaded, isLoading,
                   fetchCount, pc, lastCall, settingsVars, compVars>>

\* the request rejects: catch (lines 54-56), then finally (line 58)
FetchReject(c) ==
    /\ c \in fetches
    /\ microtasks = <<>>
    /\ error' = LoadError
    /\ isLoading' = FALSE
    /\ fetches' = fetches \ {c}
    /\ microtasks' = <<[caller |-> c, settled |-> "fulfilled"]>>
    /\ UNCHANGED <<homepage, pages, collections, isLoaded, fetchCount, pc,
                   lastCall, settingsVars, compVars>>

\* a malformed payload handled by a try with a finally clause and no catch
FetchMalformedWithoutCatch(c) ==
    /\ c \in fetches
    /\ microtasks = <<>>
    /\ isLoading' = FALSE
    /\ fetches' = fetches \ {c}
    /\ microtasks' = <<[caller |-> c, settled |-> "rejected"]>>
    /\ UNCHANGED <<homepage, pages, collections, isLoaded, error, fetchCount,
                   pc, lastCall, settingsVars, compVars>>

\* the request fulfils with a payload that has no data: reading
\* response.data.homepage (line 51) raises a TypeError before anything is
\* assigned; catch keeps it (line 55), then finally (line 58)
FetchMalformed(c) ==
    /\ c \in fetches
    /\ microtasks = <<>>
    /\ error' = [message |-> "Cannot read properties of undefined"]
    /\ isLoading' = FALSE
    /\ fetches' = fetches \ {c}
    /\ microtasks' = <<[caller |-> c, settled |-> "fulfilled"]>>
    /\ UNCHANGED <<homepage, pages, collections, isLoaded, fetchCount, pc,
                   lastCall, settingsVars, compVars>>

\* the caller's `await loadRoutes()` completes; what it then sees of the
\* resolver is recorded
Resume(c) ==
    /\ microtasks # <<>>
    /\ Head(microtasks).caller = c
    /\ pc[c] = "awaiting"
    /\ microtasks' = Tail(microtasks)
    /\ pc' = [pc EXCEPT ![c] = "idle"]
    /\ lastCall' = [op |-> "loadRoutes", caller |-> c,
                    threw |-> Head(microtasks).settled = "rejected",
                    isLoaded |-> isLoaded, isLoading |-> isLoading,
                    error |-> error]
    /\ UNCHANGED <<routeVars, fetches, fetchCount, settingsVars, compVars>>

(***************************************************************************)
(* Calls of the synchronous operations                                     *)
(***************************************************************************)
Resolve(path) ==
    /\ microtasks = <<>>
    /\ lastCall' = [op |-> "resolve", path |-> path, wasLoaded |-> isLoaded,
                    result |-> resolve(path)]
    /\ UNCHANGED <<routeVars, asyncVars, settingsVars, compVars>>

BuildUrl(pageCode, params) ==
    /\ microtasks = <<>>
    /\ lastCall' = [op |-> "buildUrl", pageCode |-> pageCode,
                    params |-> params, wasLoaded |-> isLoaded,
                    result |-> buildUrl(pageCode, params)]
    /\ UNCHANGED <<routeVars, asyncVars, settingsVars, compVars>>

\* resolve(buildUrl(pageCode, params)), for a URL that was built
ResolveBuilt ==
    /\ microtasks = <<>>
    /\ lastCall.op = "buildUrl"
    /\ lastCall.result # null
    /\ lastCall' = [op |-> "resolveBuilt", pageCode |-> lastCall.pageCode,
                    params |-> lastCall.params, url |-> lastCall.result,
                    wasLoaded |-> isLoaded,
                    result |-> resolve(lastCall.result.s)]
    /\ UNCHANGED <<routeVars, asyncVars, settingsVars, compVars>>

BuildEntryUrl(collectionCode, entry, language) ==
    /\ microtasks = <<>>
    /\ lastCall' = [op |-> "buildEntryUrl", collectionCode |-> collectionCode,
                    entry |-> entry, language |-> language,
                    wasLoaded |-> isLoaded,
                    result |-> buildEntryUrl(collectionCode, entry, language)]
    /\ UNCHANGED <<routeVars, asyncVars, settingsVars, compVars>>

(***************************************************************************)
(* Responsive settings resolver (useScrollAnimation.ts:91-310).            *)
(*                                                                         *)
(* A settings object is a function from its own keys to their values; the  *)
(* value of the key "responsive" is itself a function from breakpoints to  *)
(* override objects.                                                       *)
(***************************************************************************)
DesktopMin == 1200
TabletMin == 768

Breakpoints == {"desktop", "tablet", "mobile"}

\* the classification with strict comparisons
detectBreakpointAbove ==
    IF window = undefined THEN "desktop"
    ELSE IF window.innerWidth > DesktopMin THEN "desktop"
    ELSE IF window.innerWidth > TabletMin THEN "tablet"
    ELSE "mobile"

detectBreakpoint ==
    IF window = undefined THEN "desktop"
    ELSE IF window.innerWidth >= DesktopMin THEN "desktop"
    ELSE IF window.innerWidth >= TabletMin THEN "tablet"
    ELSE "mobile"

EmptyObject == [k \in {} |-> undefined]

\* obj[key]: undefined when the key is absent
Field(obj, key) == IF key \in DOMAIN obj THEN obj[key] ELSE undefined

\* a spread in the wrong order: { ...b, ...a }
SpreadBaseWins(a, b) == [k \in (DOMAIN a) \cup (DOMAIN b) |->
                            IF k \in DOMAIN a THEN a[k] ELSE b[k]]

\* { ...a, ...b }
Spread(a, b) == [k \in (DOMAIN a) \cup (DOMAIN b) |->
                    IF k \in DOMAIN b THEN b[k] ELSE a[k]]

TypeError == [tag |-> "throw", err |-> "TypeError"]

\* settings.responsive[breakpoint], without the optional chaining: reading a
\* property of undefined or null raises
ResponsiveOverrideUnchained(settings, breakpoint) ==
    IF Field(settings, "responsive") \in {undefined, null} THEN TypeError
    ELSE Field(settings.responsive, breakpoint)

\* settings.responsive?.[breakpoint]
ResponsiveOverride(settings, breakpoint) ==
    IF Field(settings, "responsive") \in {undefined, null} THEN undefined
    ELSE Field(settings.responsive, breakpoint)

\* a falsy primitive value (false, 0, ''): it has no own property to spread
FalsyPrimitive == [primitive |-> "falsy"]

\* x || {}
OrEmptyObject(x) ==
    IF x \in {undefined, null, FalsyPrimitive} THEN EmptyObject ELSE x

getMergedSettings(settings) ==
    IF settings = undefined THEN EmptyObject
    ELSE IF currentBreakpoint = "desktop" THEN settings
    ELSE Spread(settings,
                OrEmptyObject(ResponsiveOverride(settings, currentBreakpoint)))

mergeSettingsForBreakpoint(settings, breakpoint) ==
    IF settings = undefined THEN EmptyObject
    ELSE IF breakpoint = "desktop" THEN settings
    ELSE Spread(settings,
                OrEmptyObject(ResponsiveOverride(settings, breakpoint)))

\* a string, number or boolean value; a property holds one of these, null
\* or undefined
Val(x) == [val |-> x]

\* obj?.[key]: undefined for a missing object, a primitive or a missing key
Get(obj, key) ==
    IF obj \in {undefined, null, FalsyPrimitive} THEN undefined
    ELSE IF key \in DOMAIN obj THEN obj[key]
    ELSE undefined

\* a ?? b
NullishOr(a, b) == IF a \in {undefined, null} THEN b ELSE a

\* the lookup of the desktop value only, whatever the breakpoint
getValueOfDesktop(settings, property, defaultValue) ==
    IF settings = undefined THEN defaultValue
    ELSE NullishOr(Get(settings, property), defaultValue)

getValue(settings, property, defaultValue) ==
    IF settings = undefined THEN defaultValue
    ELSE IF currentBreakpoint = "desktop"
    THEN NullishOr(Get(settings, property), defaultValue)
    ELSE LET responsiveValue ==
                Get(ResponsiveOverride(settings, currentBreakpoint), property)
         IN IF responsiveValue # undefined THEN responsiveValue
            ELSE NullishOr(Get(settings, property), defaultValue)

getResponsiveValue(settings, property, breakpoint, defaultValue) ==
    IF settings = undefined THEN defaultValue
    ELSE IF breakpoint = "desktop"
    THEN NullishOr(Get(settings, property), defaultValue)
    ELSE LET responsiveValue ==
                Get(ResponsiveOverride(settings, breakpoint), property)
         IN IF responsiveValue # undefined THEN responsiveValue
            ELSE NullishOr(Get(settings, property), defaultValue)

\* hidden inherited from the desktop value when the override has none
isHiddenInheriting(settings) ==
    IF settings = undefined THEN FALSE
    ELSE NullishOr(getValue(settings, "hidden", undefined), Val(FALSE)).val

isHidden(settings) ==
    IF settings = undefined THEN FALSE
    ELSE IF currentBreakpoint = "desktop"
    THEN NullishOr(Get(settings, "hidden"), Val(FALSE)).val
    ELSE LET responsiveHidden ==
                Get(ResponsiveOverride(settings, currentBreakpoint), "hidden")
         IN NullishOr(responsiveHidden, Val(FALSE)).val

isHiddenForBreakpoint(settings, breakpoint) ==
    IF settings = undefined THEN FALSE
    ELSE IF breakpoint = "desktop"
    THEN NullishOr(Get(settings, "hidden"), Val(FALSE)).val
    ELSE NullishOr(Get(ResponsiveOverride(settings, breakpoint), "hidden"),
                   Val(FALSE)).val

\* stacking that is off by default at every breakpoint
shouldStackOffByDefault(settings) ==
    IF settings = undefined THEN FALSE
    ELSE IF currentBreakpoint = "tablet"
    THEN NullishOr(Get(settings, "stackOnTablet"), Val(FALSE)).val
    ELSE IF currentBreakpoint = "mobile"
    THEN NullishOr(Get(settings, "stackOnMobile"), Val(FALSE)).val
    ELSE FALSE

shouldStack(settings) ==
    IF settings = undefined THEN currentBreakpoint = "mobile"
    ELSE IF currentBreakpoint = "tablet"
    THEN NullishOr(Get(settings, "stackOnTablet"), Val(FALSE)).val
    ELSE IF currentBreakpoint = "mobile"
    THEN NullishOr(Get(settings, "stackOnMobile"), Val(TRUE)).val
    ELSE FALSE

GetValue(settings, property, defaultValue) ==
    /\ lastMerge' = [op |-> "getValue", settings |-> settings,
                     property |-> property, defaultValue |-> defaultValue,
                     breakpoint |-> currentBreakpoint,
                     result |-> getValue(settings, property, defaultValue)]
    /\ UNCHANGED <<routeVars, asyncVars, lastCall, compVars, viewVars>>

GetResponsiveValue(settings, property, breakpoint, defaultValue) ==
    /\ lastMerge' = [op |-> "getResponsiveValue", settings |-> settings,
                     property |-> property, defaultValue |-> defaultValue,
                     breakpoint |-> breakpoint,
                     result |-> getResponsiveValue(settings, property,
                                                   breakpoint, defaultValue)]
    /\ UNCHANGED <<routeVars, asyncVars, lastCall, compVars, viewVars>>

IsHidden(settings) ==
    /\ lastMerge' = [op |-> "isHidden", settings |-> settings,
                     breakpoint |-> currentBreakpoint,
                     result |-> isHidden(settings)]
    /\ UNCHANGED <<routeVars, asyncVars, lastCall, compVars, viewVars>>

IsHiddenForBreakpoint(settings, breakpoint) ==
    /\ lastMerge' = [op |-> "isHiddenForBreakpoint", settings |-> settings,
                     breakpoint |-> breakpoint,
                     result |-> isHiddenForBreakpoint(settings, breakpoint)]
    /\ UNCHANGED <<routeVars, asyncVars, lastCall, compVars, viewVars>>

ShouldStack(settings) ==
    /\ lastMerge' = [op |-> "shouldStack", settings |-> settings,
                     breakpoint |-> currentBreakpoint,
                     result |-> shouldStack(settings)]
    /\ UNCHANGED <<routeVars, asyncVars, lastCall, compVars, viewVars>>

(***************************************************************************)
(* The shared viewport listener (useScrollAnimation.ts:117-179).  The      *)
(* window keeps one registration per listener function: adding handleResize *)
(* again changes nothing.                                                  *)
(***************************************************************************)
Consumers == {"k1", "k2", "k3"}

\* the user resizes the viewport: the width changes and a resize event is
\* queued
ResizeViewport(width) ==
    /\ window # undefined
    /\ window' = [window EXCEPT !.innerWidth = width]
    /\ resizePending' = TRUE
    /\ UNCHANGED <<routeVars, asyncVars, lastCall, compVars, lastMerge,
                   currentBreakpoint, isInitialized, listenerCount, mounted>>

\* the queued resize event is dispatched: handleResize runs if registered
HandleResize ==
    /\ resizePending
    /\ resizePending' = FALSE
    /\ currentBreakpoint' =
          IF "handleResize" \in window.resizeListeners
          THEN detectBreakpoint ELSE currentBreakpoint
    /\ UNCHANGED <<routeVars, asyncVars, lastCall, compVars, lastMerge,
                   window, isInitialized, listenerCount, mounted>>

\* a mount that installs the listener without reading the viewport
MountWithoutDetect(k) ==
    /\ k \notin mounted
    /\ mounted' = mounted \cup {k}
    /\ listenerCount' = listenerCount + 1
    /\ IF window = undefined \/ isInitialized
       THEN UNCHANGED <<window, isInitialized>>
       ELSE /\ window' = [window EXCEPT !.resizeListeners = @ \cup {"handleResize"}]
            /\ isInitialized' = TRUE
    /\ UNCHANGED <<routeVars, asyncVars, lastCall, compVars, lastMerge, resizePending,
                   currentBreakpoint>>

\* onMounted of consumer k: listenerCount++ then initializeListener()
Mount(k) ==
    /\ k \notin mounted
    /\ mounted' = mounted \cup {k}
    /\ listenerCount' = listenerCount + 1
    /\ IF window = undefined \/ isInitialized
       THEN UNCHANGED <<window, currentBreakpoint, isInitialized>>
       ELSE /\ currentBreakpoint' = detectBreakpoint
            /\ window' = [window EXCEPT !.resizeListeners = @ \cup {"handleResize"}]
            /\ isInitialized' = TRUE
    /\ UNCHANGED <<routeVars, asyncVars, lastCall, compVars, lastMerge, resizePending>>

\* an unmount whose cleanup does not look at the count
UnmountAlwaysRemoving(k) ==
    /\ k \in mounted
    /\ mounted' = mounted \ {k}
    /\ listenerCount' = listenerCount - 1
    /\ IF window = undefined \/ ~isInitialized
       THEN UNCHANGED <<window, isInitialized>>
       ELSE /\ window' = [window EXCEPT !.resizeListeners = @ \ {"handleResize"}]
            /\ isInitialized' = FALSE
    /\ UNCHANGED <<routeVars, asyncVars, lastCall, compVars, lastMerge,
                   currentBreakpoint, resizePending>>

\* onUnmounted of consumer k: listenerCount-- then cleanupListener()
Unmount(k) ==
    /\ k \in mounted
    /\ mounted' = mounted \ {k}
    /\ listenerCount' = listenerCount - 1
    /\ IF window = undefined \/ ~isInitialized \/ listenerCount - 1 > 0
       THEN UNCHANGED <<window, isInitialized>>
       ELSE /\ window' = [window EXCEPT !.resizeListeners = @ \ {"handleResize"}]
            /\ isInitialized' = FALSE
    /\ UNCHANGED <<routeVars, asyncVars, lastCall, compVars, lastMerge,
                   currentBreakpoint, resizePending>>

GetMergedSettings(settings) ==
    /\ lastMerge' = [op |-> "getMergedSettings", settings |-> settings,
                     breakpoint |-> currentBreakpoint,
                     result |-> getMergedSettings(settings)]
    /\ UNCHANGED <<routeVars, asyncVars, lastCall, compVars, viewVars>>

MergeSettingsForBreakpoint(settings, breakpoint) ==
    /\ lastMerge' = [op |-> "mergeSettingsForBreakpoint", settings |-> settings,
                     breakpoint |-> breakpoint,
                     result |-> mergeSettingsForBreakpoint(settings, breakpoint)]
    /\ UNCHANGED <<routeVars, asyncVars, lastCall, compVars, viewVars>>

(***************************************************************************)
(* The inputs.                                                             *)
(***************************************************************************)
MaxPages == 2
MaxPathLen == 3

\* route entries: static ones (two with the same url), a pattern without
\* placeholder, patterns with one and two placeholders, adjacent
\* placeholders, a repeated name, a literal '.', and a literal portion with
\* braces
PageEntries == {
    [code |-> "about", url |-> Str(<<"/", "a">>),
     pattern |-> null, page_uuid |-> "u-about"],
    [code |-> "info", url |-> Str(<<"/", "a">>),
     pattern |-> null, page_uuid |-> "u-info"],
    [code |-> "contact", url |-> null,
     pattern |-> Str(<<"/", "a">>), page_uuid |-> "u-contact"],
    [code |-> "post", url |-> null,
     pattern |-> Str(<<"/", "a", "/", "{", "x", "}">>), page_uuid |-> "u-post"],
    [code |-> "any", url |-> null,
     pattern |-> Str(<<"/", "{", "x", "}">>), page_uuid |-> "u-any"],
    [code |-> "pair", url |-> null,
     pattern |-> Str(<<"/", "{", "x", "}", "{", "y", "}">>), page_uuid |-> "u-pair"],
    [code |-> "twice", url |-> null,
     pattern |-> Str(<<"/", "{", "x", "}", "/", "{", "x", "}">>), page_uuid |-> "u-twice"],
    [code |-> "dot", url |-> null,
     pattern |-> Str(<<"/", "a", ".", "{", "x", "}">>), page_uuid |-> "u-dot"],
    [code |-> "rep", url |-> null,
     pattern |-> Str(<<"/", "{", "x", "}", "a", "{", "1", ",", "}">>), page_uuid |-> "u-rep"]}

\* the pages of the specification's scenario
ScenarioPages == <<
    [code |-> "about", url |-> Str(<<"/", "a", "b", "o", "u", "t">>),
     pattern |-> null, page_uuid |-> "u-about"],
    [code |-> "blog-post", url |-> null,
     pattern |-> Str(<<"/", "b", "l", "o", "g", "/", "{", "s", "l", "u", "g", "}">>), page_uuid |-> "u-blog-post"]>>

Homepages == {null,
              [code |-> "home", url |-> Str(<<"/">>), page_uuid |-> "u-home"],
              [code |-> "home", url |-> Str(<<"/", "a">>), page_uuid |-> "u-home"]}

Collections == <<
    [code |-> "blog",
     entry_url_pattern |-> Str(<<"/", "{", "l", "a", "n", "g", "}", "/", "b", "/", "{", "s", "l", "u", "g", "}">>),
     entry_url_field |-> Str(<<"t", "i", "t", "l", "e">>)],
    [code |-> "plain", entry_url_pattern |-> null, entry_url_field |-> null],
    [code |-> "byid",
     entry_url_pattern |-> Str(<<"/", "e", "/", "{", "e", "n", "t", "r", "y", "_", "i", "d", "}">>),
     entry_url_field |-> null],
    [code |-> "cat",
     entry_url_pattern |-> Str(<<"/", "{", "t", "a", "g", "}", "/", "{", "s", "l", "u", "g", "}">>),
     entry_url_field |-> Str(<<"t", "i", "t", "l", "e">>)],
    [code |-> "nofield",
     entry_url_pattern |-> Str(<<"/", "n", "/", "{", "s", "l", "u", "g", "}">>),
     entry_url_field |-> null]>>

RECURSIVE PageLists(_)
\* the sequences of at most n entries
PageLists(n) ==
    IF n = 0 THEN {<<>>}
    ELSE PageLists(n - 1) \cup
         {Append(l, e) : l \in {l \in PageLists(n - 1) : Len(l) = n - 1},
                         e \in PageEntries}

\* the tables: any homepage, any list of different entries
Tables ==
    {[homepage |-> h, pages |-> l, collections |-> Collections] :
        h \in Homepages,
        l \in {l \in PageLists(MaxPages) :
                 \A i, j \in 1..Len(l) : i # j => l[i] # l[j]}}
    \cup {[homepage |-> h, pages |-> ScenarioPages, collections |-> Collections] :
            h \in Homepages}

\* the payloads the load protocol is run with
LoadTables ==
    {[homepage |-> [code |-> "home", url |-> Str(<<"/">>), page_uuid |-> "u-home"],
      pages |-> ScenarioPages, collections |-> Collections],
     [homepage |-> null, pages |-> <<>>, collections |-> <<>>]}

PathChars == {"/", "a", "x"}

Paths ==
    UNION {[1..n -> PathChars] : n \in 0..MaxPathLen}
    \cup {<<"/", "a", ".", "x">>,
          <<"/", "a", "b", "x">>,
          <<"/", "a", "/", "x", "/", "a">>,
          <<"/", "x", "a", "a">>,
          <<"/", "a", "b", "o", "u", "t">>,
          <<"/", "b", "l", "o", "g", "/", "m", "y", "-", "p", "o", "s", "t">>,
          <<"/", "b", "l", "o", "g", "/", "a", "/", "b">>,
          <<"/", "b", "l", "o", "g", "/">>,
          <<"/", "b", "l", "o", "g">>,
          <<"/", "u", "n", "k", "n", "o", "w", "n">>,
          <<"b", "l", "o", "g", "/", "x">>}

LoadPaths == {<<"/">>, <<"/", "a", "b", "o", "u", "t">>, <<"/", "b", "l", "o", "g", "/", "m", "y", "-", "p", "o", "s", "t">>, <<"/", "u", "n", "k", "n", "o", "w", "n">>}

ParamMaps == {
    NoParams,
    Obj(<<<<<<"x">>, Str(<<"a">>)>>>>),
    Obj(<<<<<<"x">>, Str(<<>>)>>>>),
    Obj(<<<<<<"x">>, Str(<<"a", " ", "b">>)>>>>),
    Obj(<<<<<<"x">>, Str(<<"a">>)>>, <<<<"y">>, Str(<<"x">>)>>>>),
    Obj(<<<<<<"x">>, Str(<<"a">>)>>, <<<<"y">>, Str(<<"x", "a">>)>>>>),
    Obj(<<<<<<"s", "l", "u", "g">>, Str(<<"h", "e", "l", "l", "o", "-", "w", "o", "r", "l", "d">>)>>>>),
    Obj(<<<<<<"s", "l", "u", "g">>, Str(<<"a", "/", "b">>)>>>>)}

TableCodes == {pages[i].code : i \in 1..Len(pages)} \cup {"home", "missing"}

Languages == {<<"p", "l">>, <<"e", "n">>}

CollectionCodes ==
    {Collections[i].code : i \in 1..Len(Collections)} \cup {"missing"}

\* the values of the entry field "title": none, an empty or a plain string,
\* or a mapping from language to string
TitleValues == {
    undefined,
    Str(<<>>),
    Str(<<"h", "i">>),
    Obj(<<>>),
    Obj(<< <<<<"e", "n">>, Str(<<"y", "e", "s">>)>>, <<<<"p", "l">>, Str(<<"t", "a", "k">>)>> >>),
    Obj(<< <<<<"d", "e">>, Str(<<"j", "a">>)>> >>),
    Obj(<< <<<<"e", "n">>, Str(<<>>)>>, <<<<"p", "l">>, Str(<<"t", "a", "k">>)>> >>),
    Obj(<< <<<<"d", "e">>, Str(<<>>)>>, <<<<"e", "n">>, null>> >>)}

TagValues == {undefined, Str(<<"c">>)}

\* the data object holding the fields that have a value
DataOf(title, tag) ==
    Obj((IF title = undefined THEN <<>>
         ELSE << <<<<"t", "i", "t", "l", "e">>, title>> >>)
        \o (IF tag = undefined THEN <<>>
            ELSE << <<<<"t", "a", "g">>, tag>> >>))

Entries ==
    {[entry_id |-> id, data |-> d] :
        id \in {undefined, Str(<<"e", "1">>)},
        d \in {undefined} \cup {DataOf(t, g) : t \in TitleValues, g \in TagValues}}

\* the entries the load protocol is run with
LoadEntries ==
    {e \in Entries :
        e.data \in {undefined, DataOf(Str(<<"h", "i">>), undefined)}}

(***************************************************************************)
(* The specifications.                                                     *)
(*   Spec         the load protocol of one useRoutes() instance with its   *)
(*                callers, and the operations called in every state        *)
(*   SpecResolve  resolve and buildUrl on a loaded instance, over Tables   *)
(*   SpecSettings the merge operations over SettingsObjects                *)
(***************************************************************************)
\* a component or composable that has not been set up
NotCreated == [created |-> FALSE]

Renderers == {"r1", "r2"}

Widgets == {"w1", "w2", "w3"}

InitComponents ==
    /\ routeInstances = [r \in Renderers |-> NotCreated]
    /\ routeRequests = [issued |-> 0, failed |-> 0]
    /\ dynamicPage = NotCreated
    /\ collectionView = NotCreated
    /\ scrollAnimation = [w \in Widgets |-> NotCreated]

\* the module as loaded in a browser, no consumer mounted yet
InitSettings ==
    /\ window = [innerWidth |-> DesktopMin, resizeListeners |-> {}]
    /\ currentBreakpoint = "desktop"
    /\ isInitialized = FALSE
    /\ listenerCount = 0
    /\ mounted = {}
    /\ resizePending = FALSE
    /\ lastMerge = NoCall

Init ==
    /\ homepage = null
    /\ pages = <<>>
    /\ collections = <<>>
    /\ isLoaded = FALSE
    /\ isLoading = FALSE
    /\ error = null
    /\ fetches = {}
    /\ fetchCount = 0
    /\ pc = [c \in Callers |-> "idle"]
    /\ microtasks = <<>>
    /\ lastCall = NoCall
    /\ InitSettings
    /\ InitComponents

Next ==
    \/ \E c \in Callers : CallLoadRoutes(c)
    \/ \E c \in Callers, t \in LoadTables : FetchFulfil(c, t)
    \/ \E c \in Callers : FetchReject(c)
    \/ \E c \in Callers : Resume(c)
    \/ \E path \in LoadPaths : Resolve(path)
    \/ \E code \in TableCodes, params \in ParamMaps : BuildUrl(code, params)
    \/ \E code \in {"blog", "plain", "missing"}, e \in LoadEntries,
          l \in Languages :
          BuildEntryUrl(code, e, l)

Spec == Init /\ [][Next]_vars

\* a loaded instance: the state loadRoutes leaves after its request fulfilled
InitResolve ==
    /\ \E t \in Tables :
          /\ homepage = t.homepage
          /\ pages = t.pages
          /\ collections = t.collections
    /\ isLoaded = TRUE
    /\ isLoading = FALSE
    /\ error = null
    /\ fetches = {}
    /\ fetchCount = 1
    /\ pc = [c \in Callers |-> "idle"]
    /\ microtasks = <<>>
    /\ lastCall = NoCall
    /\ InitSettings
    /\ InitComponents

\* one call on the loaded instance, and the resolution of a URL just built
NextResolve ==
    \/ lastCall = NoCall /\ \E path \in Paths : Resolve(path)
    \/ lastCall = NoCall /\ \E code \in TableCodes, params \in ParamMaps :
                                BuildUrl(code, params)
    \/ ResolveBuilt

SpecResolve == InitResolve /\ [][NextResolve]_vars

\* entry URLs built on a loaded instance
NextEntryUrl ==
    lastCall = NoCall
    /\ \E code \in CollectionCodes, e \in Entries, l \in Languages :
          BuildEntryUrl(code, e, l)

SpecEntryUrl == InitResolve /\ [][NextEntryUrl]_vars

(***************************************************************************)
(* The settings objects: any part of {backgroundColor, hidden} at the top  *)
(* level, and a responsive key that is absent, null, or holds for each of  *)
(* tablet and mobile nothing, null, a falsy primitive or an override.      *)
(***************************************************************************)
Widths == {0, TabletMin - 1, TabletMin, DesktopMin - 1, DesktopMin, 1920}

PropMaps ==
    {Spread(a, b) :
        a \in {EmptyObject} \cup {[backgroundColor |-> Val(c)] : c \in {"#fff", "#000"}},
        b \in {EmptyObject} \cup {[hidden |-> Val(h)] : h \in BOOLEAN}}

Overrides == PropMaps \cup {null, FalsyPrimitive}

ResponsiveMaps ==
    {Spread(t, m) :
        t \in {EmptyObject} \cup {[tablet |-> o] : o \in Overrides},
        m \in {EmptyObject} \cup {[mobile |-> o] : o \in Overrides}}

SettingsObjects ==
    {Spread(p, r) :
        p \in PropMaps,
        r \in {EmptyObject, [responsive |-> null]}
              \cup {[responsive |-> rr] : rr \in ResponsiveMaps}}

\* a consumer is mounted and the listener installed, at any viewport width
InitSettingsAt ==
    /\ homepage = null
    /\ pages = <<>>
    /\ collections = <<>>
    /\ isLoaded = FALSE
    /\ isLoading = FALSE
    /\ error = null
    /\ fetches = {}
    /\ fetchCount = 0
    /\ pc = [c \in Callers |-> "idle"]
    /\ microtasks = <<>>
    /\ lastCall = NoCall
    /\ \E w \in Widths :
          window = [innerWidth |-> w, resizeListeners |-> {"handleResize"}]
    /\ currentBreakpoint = detectBreakpoint
    /\ isInitialized = TRUE
    /\ listenerCount = 1
    /\ mounted = {"k1"}
    /\ resizePending = FALSE
    /\ lastMerge = NoCall
    /\ InitComponents

\* the properties looked up, and for each the default values passed
Properties == {"backgroundColor", "hidden"}

DefaultsOf(property) ==
    {undefined, Val(IF property = "hidden" THEN TRUE ELSE "#ccc")}

\* the column settings shouldStack is given
StackSettings ==
    {Spread(t, m) :
        t \in {EmptyObject} \cup {[stackOnTablet |-> Val(x)] : x \in BOOLEAN},
        m \in {EmptyObject} \cup {[stackOnMobile |-> Val(x)] : x \in BOOLEAN}}

\* no call made yet and no resize event waiting
Quiet == lastMerge = NoCall /\ ~resizePending

\* the viewport is resized, then one operation is called
NextSettings ==
    \/ lastMerge = NoCall /\ \E w \in Widths : ResizeViewport(w)
    \/ lastMerge = NoCall /\ HandleResize
    \/ Quiet /\ \E s \in SettingsObjects \cup {undefined} :
                    GetMergedSettings(s)
    \/ Quiet /\ \E s \in SettingsObjects \cup {undefined},
                    b \in Breakpoints :
                    MergeSettingsForBreakpoint(s, b)
    \/ Quiet /\ \E s \in SettingsObjects \cup {undefined},
                    p \in Properties : \E d \in DefaultsOf(p) :
                    GetValue(s, p, d)
    \/ Quiet /\ \E s \in SettingsObjects \cup {undefined},
                    p \in Properties, b \in Breakpoints : \E d \in DefaultsOf(p) :
                    GetResponsiveValue(s, p, b, d)
    \/ Quiet /\ \E s \in SettingsObjects \cup {undefined} : IsHidden(s)
    \/ Quiet /\ \E s \in SettingsObjects \cup {undefined},
                    b \in Breakpoints :
                    IsHiddenForBreakpoint(s, b)
    \/ Quiet /\ \E s \in StackSettings \cup {undefined} : ShouldStack(s)

SpecSettings == InitSettingsAt /\ [][NextSettings]_vars

\* the module as loaded, with or without a viewport, at any width; then
\* consumers mount and unmount while the viewport is resized
InitListener ==
    /\ homepage = null
    /\ pages = <<>>
    /\ collections = <<>>
    /\ isLoaded = FALSE
    /\ isLoading = FALSE
    /\ error = null
    /\ fetches = {}
    /\ fetchCount = 0
    /\ pc = [c \in Callers |-> "idle"]
    /\ microtasks = <<>>
    /\ lastCall = NoCall
    /\ window \in {undefined}
          \cup {[innerWidth |-> w, resizeListeners |-> {}] : w \in Widths}
    /\ currentBreakpoint = "desktop"
    /\ isInitialized = FALSE
    /\ listenerCount = 0
    /\ mounted = {}
    /\ resizePending = FALSE
    /\ lastMerge = NoCall
    /\ InitComponents

NextListener ==
    \/ \E k \in Consumers : Mount(k)
    \/ \E k \in Consumers : Unmount(k)
    \/ \E w \in Widths : ResizeViewport(w)
    \/ HandleResize

SpecListener == InitListener /\ [][NextListener]_vars

(***************************************************************************)
(* Renderers.  Each DynamicPageResolver calls useRoutes() in its setup     *)
(* (DynamicPageResolver.vue:22), and each useRoutes() call creates its own *)
(* refs (useRoutes.ts:32-37): the guard of loadRoutes reads the refs of    *)
(* the instance it belongs to.  routeRequests counts the requests that     *)
(* reach api.getRoutes(), which issues one fetch per call                  *)
(* (client.ts:137-190, 224-226).                                           *)
(***************************************************************************)
NewInstance ==
    [created |-> TRUE, homepage |-> null, pages |-> <<>>, collections |-> <<>>,
     isLoaded |-> FALSE, isLoading |-> FALSE, error |-> null]

\* setup of renderer r: const { loadRoutes, ... } = useRoutes()
SetupRenderer(r) ==
    /\ routeInstances[r] = NotCreated
    /\ routeInstances' = [routeInstances EXCEPT ![r] = NewInstance]
    /\ UNCHANGED <<routeVars, asyncVars, lastCall, settingsVars, routeRequests,
                   dynamicPage, collectionView, scrollAnimation>>

\* renderer r is unmounted: its instance is dropped with the component
UnmountRenderer(r) ==
    /\ routeInstances[r] # NotCreated
    /\ routeInstances' = [routeInstances EXCEPT ![r] = NotCreated]
    /\ UNCHANGED <<routeVars, asyncVars, lastCall, settingsVars, routeRequests,
                   dynamicPage, collectionView, scrollAnimation>>

\* renderer r calls loadRoutes on its instance: lines 43-49
RendererLoadRoutes(r) ==
    /\ routeInstances[r] # NotCreated
    /\ IF routeInstances[r].isLoaded \/ routeInstances[r].isLoading
       THEN UNCHANGED <<routeInstances, routeRequests>>
       ELSE /\ routeRequests.issued < MaxFetches
            /\ routeInstances' = [routeInstances EXCEPT ![r].isLoading = TRUE,
                                                        ![r].error = null]
            /\ routeRequests' = [routeRequests EXCEPT !.issued = @ + 1]
    /\ UNCHANGED <<routeVars, asyncVars, lastCall, settingsVars,
                   dynamicPage, collectionView, scrollAnimation>>

\* the request of r's instance fulfils: lines 50-53 and 58
RendererFulfil(r, table) ==
    /\ routeInstances[r] # NotCreated
    /\ routeInstances[r].isLoading
    /\ routeInstances' = [routeInstances EXCEPT
                            ![r].homepage = table.homepage,
                            ![r].pages = table.pages,
                            ![r].collections = table.collections,
                            ![r].isLoaded = TRUE,
                            ![r].isLoading = FALSE]
    /\ UNCHANGED <<routeVars, asyncVars, lastCall, settingsVars, routeRequests,
                   dynamicPage, collectionView, scrollAnimation>>

\* the request of r's instance rejects: lines 54-56 and 58
RendererReject(r) ==
    /\ routeInstances[r] # NotCreated
    /\ routeInstances[r].isLoading
    /\ routeInstances' = [routeInstances EXCEPT ![r].error = LoadError,
                                                ![r].isLoading = FALSE]
    /\ routeRequests' = [routeRequests EXCEPT !.failed = @ + 1]
    /\ UNCHANGED <<routeVars, asyncVars, lastCall, settingsVars,
                   dynamicPage, collectionView, scrollAnimation>>

InitRenderers ==
    /\ homepage = null
    /\ pages = <<>>
    /\ collections = <<>>
    /\ isLoaded = FALSE
    /\ isLoading = FALSE
    /\ error = null
    /\ fetches = {}
    /\ fetchCount = 0
    /\ pc = [c \in Callers |-> "idle"]
    /\ microtasks = <<>>
    /\ lastCall = NoCall
    /\ InitSettings
    /\ InitComponents

NextRenderers ==
    \/ \E r \in Renderers : SetupRenderer(r)
    \/ \E r \in Renderers : UnmountRenderer(r)
    \/ \E r \in Renderers : RendererLoadRoutes(r)
    \/ \E r \in Renderers, t \in LoadTables : RendererFulfil(r, t)
    \/ \E r \in Renderers : RendererReject(r)

SpecRenderers == InitRenderers /\ [][NextRenderers]_vars

(***************************************************************************)
(* DynamicPageResolver (DynamicPageResolver.vue:20-70).  The component     *)
(* uses the resolver instance above.  Each resolvePage invocation is a     *)
(* caller of loadRoutes: it runs to `await loadRoutes()` and continues     *)
(* when the promise has settled.                                           *)
(***************************************************************************)
\* lines 35-37
PageReset(path) ==
    [created |-> TRUE, path |-> path, resolvedRoute |-> null,
     loading |-> TRUE, notFound |-> FALSE]

\* lines 44-65, run on the page state d
PageSettle(d) ==
    IF error # null
    THEN [d EXCEPT !.notFound = TRUE, !.loading = FALSE]
    ELSE LET resolved == resolve(d.path)
         IN IF resolved # null
            THEN [d EXCEPT !.resolvedRoute = resolved, !.loading = FALSE]
            ELSE [d EXCEPT !.notFound = TRUE, !.loading = FALSE]

\* resolvePage() is invoked, as invocation c, with route.path = path:
\* lines 35-42, and lines 44-65 at once when the table is loaded
resolvePage(c, path) ==
    /\ pc[c] = "idle"
    /\ microtasks = <<>>
    /\ IF ~isLoaded
       THEN /\ loadRoutes(c)
            /\ dynamicPage' = PageReset(path)
       ELSE /\ UNCHANGED <<routeVars, asyncVars>>
            /\ dynamicPage' = PageSettle(PageReset(path))
    /\ UNCHANGED <<lastCall, settingsVars, routeInstances, routeRequests,
                   collectionView, scrollAnimation>>

\* onMounted(resolvePage), line 69
MountPage(c, path) ==
    /\ dynamicPage = NotCreated
    /\ resolvePage(c, path)

\* the route changes to another path: watch(() => route.path, resolvePage),
\* line 70
ChangePath(c, path) ==
    /\ dynamicPage # NotCreated
    /\ dynamicPage.path # path
    /\ resolvePage(c, path)

\* invocation c continues after `await loadRoutes()`: lines 44-65, with the
\* route.path of that moment
PageResume(c) ==
    /\ microtasks # <<>>
    /\ Head(microtasks).caller = c
    /\ pc[c] = "awaiting"
    /\ microtasks' = Tail(microtasks)
    /\ pc' = [pc EXCEPT ![c] = "idle"]
    /\ dynamicPage' = PageSettle(dynamicPage)
    /\ UNCHANGED <<routeVars, fetches, fetchCount, lastCall, settingsVars,
                   routeInstances, routeRequests, collectionView,
                   scrollAnimation>>

NextDynamicPage ==
    \/ \E c \in Callers, p \in LoadPaths : MountPage(c, p)
    \/ \E c \in Callers, p \in LoadPaths : ChangePath(c, p)
    \/ \E c \in Callers : PageResume(c)
    \/ \E c \in Callers, t \in LoadTables : FetchFulfil(c, t)
    \/ \E c \in Callers : FetchReject(c)

SpecDynamicPage == InitRenderers /\ [][NextDynamicPage]_vars

(***************************************************************************)
(* The load protocol alone.  A request that was issued settles, whatever   *)
(* calls are made meanwhile (strong fairness: each call and its            *)
(* continuation disable the delivery of the response for one step only),   *)
(* and the microtask queue is always drained.                              *)
(***************************************************************************)
Settle ==
    \E c \in Callers :
        \/ \E t \in LoadTables : FetchFulfil(c, t)
        \/ FetchMalformed(c)
        \/ FetchReject(c)

NextLoad ==
    \/ \E c \in Callers : CallLoadRoutes(c)
    \/ \E c \in Callers, t \in LoadTables : FetchFulfil(c, t)
    \/ \E c \in Callers : FetchMalformed(c)
    \/ \E c \in Callers : FetchReject(c)
    \/ \E c \in Callers : Resume(c)

SpecLoad ==
    /\ InitRenderers
    /\ [][NextLoad]_vars
    /\ SF_vars(Settle)
    /\ WF_vars(\E c \in Callers : Resume(c))

(***************************************************************************)
(* Merged settings given back to the resolver.  An override is a           *)
(* Partial<BaseSettings> (client.ts:345-348), so it may itself hold a      *)
(* responsive key.                                                         *)
(***************************************************************************)
NestedSettings ==
    {Spread(p, [responsive |-> [b \in {outer} |->
                    Spread(o, [responsive |-> [c \in {inner} |-> oo]])]]) :
        p \in PropMaps, outer \in {"tablet", "mobile"}, o \in PropMaps,
        inner \in {"tablet", "mobile"}, oo \in PropMaps}

\* getMergedSettings and isHidden called on the result of the
\* getMergedSettings call just made
MergeMerged ==
    /\ lastMerge.op = "getMergedSettings"
    /\ lastMerge' = [op |-> "mergeMerged", settings |-> lastMerge.settings,
                     breakpoint |-> currentBreakpoint,
                     merged |-> lastMerge.result,
                     result |-> getMergedSettings(lastMerge.result),
                     hidden |-> isHidden(lastMerge.settings),
                     hiddenOfMerged |-> isHidden(lastMerge.result)]
    /\ UNCHANGED <<routeVars, asyncVars, lastCall, compVars, viewVars>>

NextMerged ==
    \/ Quiet /\ \E s \in SettingsObjects \cup NestedSettings \cup {undefined} :
                    GetMergedSettings(s)
    \/ MergeMerged

SpecMerged == InitSettingsAt /\ [][NextMerged]_vars

(***************************************************************************)
(* Settings whose properties hold null or an explicitly undefined value.   *)
(***************************************************************************)
NullableValues == {Val("#fff"), Val("#000"), null, undefined}

NullableSettings ==
    {Spread(a, r) :
        a \in {EmptyObject} \cup {[backgroundColor |-> v] : v \in NullableValues},
        r \in {EmptyObject}
              \cup {[responsive |-> [b \in {at} |-> [backgroundColor |-> v]]] :
                        at \in {"tablet", "mobile"}, v \in NullableValues}}

NextAgree ==
    Quiet /\ \E s \in SettingsObjects \cup NullableSettings \cup {undefined},
                p \in Properties : \E d \in DefaultsOf(p) :
                GetValue(s, p, d)

SpecAgree == InitSettingsAt /\ [][NextAgree]_vars

(***************************************************************************)
(* useCollection (useCollection.ts:76-156).  collectionView holds the refs *)
(* of one useCollection() call, the requests in flight and the number of   *)
(* requests issued.  The server answers a request for (code, page) with    *)
(* the entries of that page and the collection's pagination.               *)
(***************************************************************************)
MaxRequests == 3

CollectionNames == {<<>>, <<"a">>, <<"b">>}

TotalPages == 3

NoEntries == [empty |-> TRUE]

EntriesOf(code, page) == [of |-> code, page |-> page]

MetaOf(code) == [totalPages |-> TotalPages]

\* computed totalPages (line 90) and hasMore (line 91)
totalPages(v) == IF v.meta = null THEN 0 ELSE v.meta.totalPages

hasMore(v) == v.page < totalPages(v)

\* fetchCollection() up to its return or its await (lines 94-111), on the
\* refs v
fetchCollection(v) ==
    IF v.code = <<>>
    THEN [v EXCEPT !.entries = NoEntries, !.meta = null]
    ELSE [v EXCEPT !.loading = TRUE,
                   !.error = null,
                   !.inflight = @ \cup {[id |-> v.issued + 1, code |-> v.code,
                                         page |-> v.page]},
                   !.issued = @ + 1]

\* useCollection(code): the refs (lines 82-88) and the immediate run of the
\* watcher (line 144)
CreateCollection(code) ==
    /\ collectionView = NotCreated
    /\ collectionView' =
          fetchCollection([created |-> TRUE, code |-> code, page |-> 1,
                           entries |-> NoEntries, meta |-> null,
                           loading |-> FALSE, error |-> null,
                           inflight |-> {}, issued |-> 0])
    /\ UNCHANGED <<routeVars, asyncVars, lastCall, settingsVars,
                   routeInstances, routeRequests, dynamicPage, scrollAnimation>>

\* a step of the collection view that leaves everything else alone
CollectionStep(v) ==
    /\ collectionView # NotCreated
    /\ v.issued <= MaxRequests
    /\ collectionView' = v
    /\ UNCHANGED <<routeVars, asyncVars, lastCall, settingsVars,
                   routeInstances, routeRequests, dynamicPage, scrollAnimation>>

\* the caller changes the code ref: the watcher (line 144) runs
\* fetchCollection
SetCode(code) ==
    /\ collectionView # NotCreated
    /\ code # collectionView.code
    /\ CollectionStep(fetchCollection([collectionView EXCEPT !.code = code]))

\* lines 125-129, then the watcher
nextPage ==
    /\ collectionView # NotCreated
    /\ IF hasMore(collectionView)
       THEN CollectionStep(fetchCollection([collectionView EXCEPT !.page = @ + 1]))
       ELSE CollectionStep(collectionView)

\* lines 131-135, then the watcher
prevPage ==
    /\ collectionView # NotCreated
    /\ IF collectionView.page > 1
       THEN CollectionStep(fetchCollection([collectionView EXCEPT !.page = @ - 1]))
       ELSE CollectionStep(collectionView)

\* lines 137-141, then the watcher when the page changed
goToPage(newPage) ==
    /\ collectionView # NotCreated
    /\ IF /\ newPage >= 1
          /\ newPage <= totalPages(collectionView)
          /\ newPage # collectionView.page
       THEN CollectionStep(fetchCollection([collectionView EXCEPT !.page = newPage]))
       ELSE CollectionStep(collectionView)

\* refetch is fetchCollection
refetch ==
    /\ collectionView # NotCreated
    /\ CollectionStep(fetchCollection(collectionView))

\* the request q fulfils: lines 112-114, then finally (line 121)
CollectionFulfil(q) ==
    /\ collectionView # NotCreated
    /\ q \in collectionView.inflight
    /\ CollectionStep([collectionView EXCEPT
                          !.entries = EntriesOf(q.code, q.page),
                          !.meta = MetaOf(q.code),
                          !.loading = FALSE,
                          !.inflight = @ \ {q}])

\* the request q rejects: catch (lines 116-119), then finally (line 121)
CollectionReject(q) ==
    /\ collectionView # NotCreated
    /\ q \in collectionView.inflight
    /\ CollectionStep([collectionView EXCEPT
                          !.error = [message |-> "API error"],
                          !.entries = NoEntries,
                          !.meta = null,
                          !.loading = FALSE,
                          !.inflight = @ \ {q}])

Requests ==
    [id : 1..(MaxRequests + 1), code : CollectionNames \ {<<>>},
     page : 1..TotalPages]

NextCollection ==
    \/ \E code \in CollectionNames : CreateCollection(code)
    \/ \E code \in CollectionNames : SetCode(code)
    \/ nextPage
    \/ prevPage
    \/ \E n \in 0..(TotalPages + 1) : goToPage(n)
    \/ refetch
    \/ \E q \in Requests : CollectionFulfil(q)
    \/ \E q \in Requests : CollectionReject(q)

SpecCollection == InitRenderers /\ [][NextCollection]_vars

(***************************************************************************)
(* useScrollAnimation (useScrollAnimation.ts:14-75) as WidgetRenderer uses *)
(* it (WidgetRenderer.vue:97-110, 231-237), for a widget whose             *)
(* animationType is not 'none'.  Beside the refs, the record of a widget   *)
(* keeps what the observer has reported: whether some entry was            *)
(* intersecting, and the state of the latest entry.                        *)
(***************************************************************************)
\* a step of widget w's animation state that leaves everything else alone
AnimationStep(w, a) ==
    /\ scrollAnimation' = [scrollAnimation EXCEPT ![w] = a]
    /\ UNCHANGED <<routeVars, asyncVars, lastCall, settingsVars,
                   routeInstances, routeRequests, dynamicPage, collectionView>>

\* widget w is mounted with animationOnce = once: the refs (lines 18-19),
\* then setupObserver() (lines 23-50, 59-61)
MountWidget(w, once) ==
    /\ scrollAnimation[w] = NotCreated
    /\ AnimationStep(w, [created |-> TRUE, once |-> once,
                         isVisible |-> FALSE, hasAnimated |-> FALSE,
                         observing |-> TRUE,
                         everIntersecting |-> FALSE, latest |-> "none"])

\* the observer reports an entry for w's element: lines 32-44
Intersection(w, isIntersecting) ==
    /\ scrollAnimation[w] # NotCreated
    /\ scrollAnimation[w].observing
    /\ LET a == scrollAnimation[w]
           reported == [a EXCEPT
                          !.everIntersecting = @ \/ isIntersecting,
                          !.latest = IF isIntersecting THEN "intersecting"
                                     ELSE "away"]
       IN IF isIntersecting
          THEN AnimationStep(w, [reported EXCEPT
                                    !.isVisible = TRUE,
                                    !.hasAnimated = TRUE,
                                    !.observing = ~a.once])
          ELSE IF ~a.once
          THEN AnimationStep(w, [reported EXCEPT !.isVisible = FALSE])
          ELSE AnimationStep(w, reported)

\* widget w is unmounted: cleanupObserver() (lines 52-57, 67-69)
UnmountWidget(w) ==
    /\ scrollAnimation[w] # NotCreated
    /\ AnimationStep(w, NotCreated)

\* widgetClass holds 'lcms-anim--visible' (WidgetRenderer.vue:232-236)
animVisible(w) ==
    scrollAnimation[w].isVisible \/ scrollAnimation[w].hasAnimated

NextAnimation ==
    \/ \E w \in Widgets, once \in BOOLEAN : MountWidget(w, once)
    \/ \E w \in Widgets, i \in BOOLEAN : Intersection(w, i)
    \/ \E w \in Widgets : UnmountWidget(w)

SpecAnimation == InitRenderers /\ [][NextAnimation]_vars

(***************************************************************************)
(* PROPERTIES                                                              *)
(*                                                                         *)
(* The matching rule of a pattern, stated without regular expressions:     *)
(* the pattern's literal characters stand for themselves and every {name}  *)
(* token stands for one or more characters other than '/'.                 *)
(***************************************************************************)
PatternParts(pattern) == ScanPlaceholders(Raw(pattern), 1)

SlashFree(s, j, len) == \A k \in j..(j + len - 1) : s[k] # "/"

RECURSIVE Fits(_, _, _, _)
\* parts i.. can be filled so as to give s from position j to its end
Fits(parts, i, s, j) ==
    IF i > Len(parts) THEN j = Len(s) + 1
    ELSE IF parts[i].k = "ch"
    THEN j <= Len(s) /\ s[j] = parts[i].c /\ Fits(parts, i + 1, s, j + 1)
    ELSE \E len \in 1..(Len(s) - j + 1) :
            SlashFree(s, j, len) /\ Fits(parts, i + 1, s, j + len)

RECURSIVE Filled(_, _)
\* the parts with every {name} replaced by the value kv gives to name
Filled(parts, kv) ==
    IF parts = <<>> THEN <<>>
    ELSE (IF Head(parts).k = "ch" THEN <<Head(parts).c>>
          ELSE Prop(kv, Head(parts).name).s)
         \o Filled(Tail(parts), kv)

IsRoute(r) == r # null /\ r.tag = "route"

HomeMatches(p) == homepage # null /\ (p = <<"/">> \/ homepage.url = Str(p))

IsStatic(i) == pages[i].pattern \in {null, Str(<<>>)}

StaticMatches(i, p) == IsStatic(i) /\ pages[i].url = Str(p)

RuleMatches(i, p) ==
    ~IsStatic(i) /\ Fits(PatternParts(pages[i].pattern.s), 1, p, 1)

NoHomeNoStatic(p) ==
    ~HomeMatches(p) /\ \A i \in 1..Len(pages) : ~StaticMatches(i, p)

FirstRule(i, p) ==
    RuleMatches(i, p) /\ \A k \in 1..(i - 1) : ~RuleMatches(k, p)

\* kv gives exactly the placeholders of parts a value each, all strings
CapturesOf(parts, kv) ==
    LET names == PlaceholderNames(parts)
    IN /\ {kv[n][1] : n \in 1..Len(kv)} = {names[n] : n \in 1..Len(names)}
       /\ \A n \in 1..Len(kv) : kv[n][2] # undefined

\* C1: on a loaded table resolve(path) gives the homepage when the
\* normalized path is '/' or the homepage's url; otherwise a static entry
\* whose url is the path, before any pattern entry; otherwise the first
\* entry in table order whose pattern matches the path.
C1_ResolvePriority ==
    (lastCall.op = "resolve" /\ lastCall.wasLoaded) =>
        LET p == normalizePath(lastCall.path)
            r == lastCall.result
        IN /\ HomeMatches(p) =>
                r = ResolvedRoute(homepage.code, homepage.page_uuid,
                                  NoParams, TRUE)
           /\ (~HomeMatches(p) /\ \E i \in 1..Len(pages) : StaticMatches(i, p)) =>
                \E i \in 1..Len(pages) :
                    /\ StaticMatches(i, p)
                    /\ r = ResolvedRoute(pages[i].code, pages[i].page_uuid,
                                         NoParams, FALSE)
           /\ NoHomeNoStatic(p) =>
                \A i \in 1..Len(pages) :
                    FirstRule(i, p) =>
                        /\ IsRoute(r)
                        /\ r.pageCode = pages[i].code
                        /\ r.pageUuid = pages[i].page_uuid
                        /\ ~r.isHomepage

\* C2: for every entry with a pattern, with any number of placeholders, zero
\* included: when the path matches its rule and neither the homepage, a
\* static entry nor an earlier pattern matches, resolve returns that entry's
\* code with the captured mapping, one value per placeholder.
C2_PatternEntryResolves ==
    (lastCall.op = "resolve" /\ lastCall.wasLoaded) =>
        LET p == normalizePath(lastCall.path)
            r == lastCall.result
        IN \A i \in 1..Len(pages) :
              (NoHomeNoStatic(p) /\ FirstRule(i, p)) =>
                 LET parts == PatternParts(pages[i].pattern.s)
                 IN /\ IsRoute(r)
                    /\ r.pageCode = pages[i].code
                    /\ CapturesOf(parts, r.params.o)
                    /\ Filled(parts, r.params.o) = p

\* C3: matching is anchored and a placeholder captures one or more
\* characters other than '/': every captured value is a non-empty string
\* without '/', the path of a pattern match is the pattern with its
\* placeholders replaced by the captured values (literal parts match only
\* themselves), and /blog/{slug} matches none of /blog/a/b, /blog/, /blog.
C3_AnchoredCaptures ==
    (lastCall.op = "resolve" /\ lastCall.wasLoaded) =>
        LET p == normalizePath(lastCall.path)
            r == lastCall.result
        IN /\ IsRoute(r) =>
                /\ \A n \in 1..Len(r.params.o) :
                      LET v == r.params.o[n][2]
                      IN v # undefined /\ v.s # <<>> /\ SlashFree(v.s, 1, Len(v.s))
                /\ \A i \in 1..Len(pages) :
                      (pages[i].code = r.pageCode /\ ~r.isHomepage
                       /\ ~IsStatic(i)) =>
                         Filled(PatternParts(pages[i].pattern.s), r.params.o) = p
           /\ (pages = ScenarioPages
               /\ p \in {<<"/", "b", "l", "o", "g", "/", "a", "/", "b">>,
                         <<"/", "b", "l", "o", "g", "/">>,
                         <<"/", "b", "l", "o", "g">>}) =>
                r = null

\* C4: on a loaded table resolve returns a route or null and never raises,
\* and it returns null exactly when the path matches no homepage, no static
\* url and no pattern; malformed tables included.
C4_ResolveTotal ==
    (lastCall.op = "resolve" /\ lastCall.wasLoaded) =>
        LET p == normalizePath(lastCall.path)
            r == lastCall.result
        IN /\ r = null \/ IsRoute(r)
           /\ r = null <=>
                (NoHomeNoStatic(p) /\ \A i \in 1..Len(pages) : ~RuleMatches(i, p))

\* C5: round trip.  For a pattern entry with code c and non-empty values for
\* its placeholders, when buildUrl(c, params) is a URL u that neither the
\* homepage, a static entry nor an earlier pattern matches, resolve(u)
\* returns code c with params equal to the values given.
C5_RoundTrip ==
    lastCall.op = "resolveBuilt" =>
        LET c == lastCall.pageCode
            u == normalizePath(lastCall.url.s)
            r == lastCall.result
            i == FindPage(c)
        IN (/\ ~(homepage # null /\ homepage.code = c)
            /\ i # 0
            /\ ~IsStatic(i)
            /\ \A n \in 1..Len(extractParams(pages[i].pattern.s)) :
                  LET v == Prop(lastCall.params.o,
                                extractParams(pages[i].pattern.s)[n])
                  IN v # undefined /\ v.s # <<>>
            /\ NoHomeNoStatic(u)
            /\ \A k \in 1..(i - 1) : ~RuleMatches(k, u)) =>
               LET names == extractParams(pages[i].pattern.s)
               IN /\ IsRoute(r)
                  /\ r.pageCode = c
                  /\ {r.params.o[n][1] : n \in 1..Len(r.params.o)}
                        = {names[n] : n \in 1..Len(names)}
                  /\ \A n \in 1..Len(names) :
                        Prop(r.params.o, names[n]) = Prop(lastCall.params.o, names[n])

\* a step in which some caller calls loadRoutes
CallStep == \E c \in Callers : pc[c] = "idle" /\ pc'[c] = "awaiting"

\* C6: loadRoutes fetches the table once.  At most one fetch is in flight
\* at any time; a call made while the instance is loading or loaded issues
\* no fetch and changes no state; once loaded, the instance stays loaded
\* and no fetch is issued again.
C6_FetchOnce ==
    /\ [](Cardinality(fetches) <= 1)
    /\ [][(CallStep /\ (isLoaded \/ isLoading)) =>
             UNCHANGED <<routeVars, fetches, fetchCount>>]_vars
    /\ [][isLoaded => (isLoaded' /\ fetchCount' = fetchCount
                       /\ fetches' = fetches)]_vars

\* a second caller has called loadRoutes while the first one's fetch is in
\* flight, and its call has returned without a fetch of its own
C6_Witness ==
    /\ isLoading
    /\ Cardinality(fetches) = 1
    /\ fetchCount = 1
    /\ microtasks # <<>>
    /\ Head(microtasks).caller \notin fetches

\* C7: whenever a caller's await of loadRoutes() completes, the resolver is
\* no longer loading: it is loaded or its error is set.
C7_AwaitMeansSettled ==
    lastCall.op = "loadRoutes" =>
        /\ ~lastCall.isLoading
        /\ lastCall.isLoaded \/ lastCall.error # null

\* C8: a failed fetch is captured: the call completes normally with error
\* set, isLoaded false and isLoading false; a later call retries, clearing
\* error as it starts; error set implies neither loaded nor loading, and
\* isLoaded and isLoading are never both true.
C8_FailureCaptured ==
    /\ [](error # null => (~isLoaded /\ ~isLoading))
    /\ [](~(isLoaded /\ isLoading))
    /\ [](lastCall.op = "loadRoutes" => ~lastCall.threw)
    /\ [][(fetches' # fetches /\ fetches' \subseteq fetches /\ ~isLoaded') =>
             (/\ error' = LoadError
              /\ ~isLoading'
              /\ microtasks' # <<>>
              /\ Head(microtasks').settled = "fulfilled")]_vars
    /\ [][(CallStep /\ error # null) =>
             (/\ error' = null
              /\ isLoading'
              /\ fetchCount' = fetchCount + 1
              /\ fetches' # fetches)]_vars

\* the first fetch failed, a later call retried, and the retry loaded the
\* table
C8_Witness ==
    /\ isLoaded
    /\ ~isLoading
    /\ error = null
    /\ fetchCount = 2
    /\ lastCall.op = "loadRoutes"
    /\ lastCall.isLoaded

ReadOps == {"resolve", "buildUrl", "buildEntryUrl"}

\* C9: while the table is not loaded (unloaded, loading, or after a load
\* error) resolve, buildUrl and buildEntryUrl return null for every
\* argument, raise nothing and change no resolver state.
C9_NotReady ==
    /\ []((lastCall.op \in ReadOps /\ ~lastCall.wasLoaded) =>
             lastCall.result = null)
    /\ [][(lastCall' # lastCall /\ lastCall'.op \in ReadOps /\ ~isLoaded) =>
             UNCHANGED <<routeVars, asyncVars>>]_vars

\* resolve was called after a load error and returned null
C9_Witness ==
    /\ lastCall.op = "resolve"
    /\ ~lastCall.wasLoaded
    /\ lastCall.result = null
    /\ error # null
    /\ ~isLoading

\* the override in force for breakpoint b: s.responsive?.[b] ?? {}
OverrideOrEmpty(s, b) ==
    IF /\ "responsive" \in DOMAIN s
       /\ s.responsive # null
       /\ b \in DOMAIN s.responsive
       /\ s.responsive[b] \notin {null, FalsyPrimitive}
    THEN s.responsive[b]
    ELSE EmptyObject

\* C10: for every settings object s, the merged settings at desktop are s
\* itself; at tablet and mobile every key of that breakpoint's override
\* takes the override's value, every other key keeps the desktop value, and
\* the result has no other key.
C10_MergedSettings ==
    (lastMerge.op \in {"getMergedSettings", "mergeSettingsForBreakpoint"}
     /\ lastMerge.settings # undefined) =>
        LET s == lastMerge.settings
            b == lastMerge.breakpoint
            m == lastMerge.result
            ov == OverrideOrEmpty(s, b)
        IN IF b = "desktop" THEN m = s
           ELSE /\ DOMAIN m = (DOMAIN s) \cup (DOMAIN ov)
                /\ \A k \in DOMAIN m :
                      m[k] = IF k \in DOMAIN ov THEN ov[k] ELSE s[k]

\* at mobile, an override replaces one key and leaves another, while the
\* tablet override, which sets that other key, contributes nothing
C10_Witness ==
    /\ lastMerge.op = "getMergedSettings"
    /\ lastMerge.breakpoint = "mobile"
    /\ lastMerge.settings # undefined
    /\ DOMAIN lastMerge.settings = {"backgroundColor", "hidden", "responsive"}
    /\ lastMerge.settings.backgroundColor = Val("#fff")
    /\ lastMerge.settings.hidden = Val(FALSE)
    /\ lastMerge.settings.responsive # null
    /\ DOMAIN lastMerge.settings.responsive = {"tablet", "mobile"}
    /\ lastMerge.settings.responsive.mobile = [backgroundColor |-> Val("#000")]
    /\ lastMerge.settings.responsive.tablet = [hidden |-> Val(TRUE)]
    /\ lastMerge.result.backgroundColor = Val("#000")
    /\ lastMerge.result.hidden = Val(FALSE)

\* C11: getValue(settings, property, default) returns, at desktop,
\* settings[property] or else default; at tablet or mobile the value of
\* that breakpoint's override when it has one, else settings[property],
\* else default.  A value set only in the other breakpoint's override is
\* never returned.
C11_GetValue ==
    (lastMerge.op \in {"getValue", "getResponsiveValue"}
     /\ lastMerge.settings # undefined) =>
        LET s == lastMerge.settings
            p == lastMerge.property
            b == lastMerge.breakpoint
            r == lastMerge.result
            fallback == IF p \in DOMAIN s THEN s[p]
                        ELSE lastMerge.defaultValue
        IN /\ IF b # "desktop" /\ p \in DOMAIN OverrideOrEmpty(s, b)
              THEN r = OverrideOrEmpty(s, b)[p]
              ELSE r = fallback
           /\ \A o \in {"tablet", "mobile"} \ {b} :
                 (/\ p \in DOMAIN OverrideOrEmpty(s, o)
                  /\ p \notin DOMAIN OverrideOrEmpty(s, b)
                  /\ p \notin DOMAIN s) => r = lastMerge.defaultValue

\* at mobile, a colour set only in the tablet override is not returned: the
\* default is
C11_Witness ==
    /\ lastMerge.op = "getValue"
    /\ lastMerge.breakpoint = "mobile"
    /\ lastMerge.property = "backgroundColor"
    /\ lastMerge.settings # undefined
    /\ "backgroundColor" \notin DOMAIN lastMerge.settings
    /\ "backgroundColor" \in DOMAIN OverrideOrEmpty(lastMerge.settings, "tablet")
    /\ "backgroundColor" \notin DOMAIN OverrideOrEmpty(lastMerge.settings, "mobile")
    /\ lastMerge.defaultValue = Val("#ccc")
    /\ lastMerge.result = Val("#ccc")

\* what isHidden may depend on at breakpoint b: s.hidden at desktop, the
\* hidden of b's override otherwise
HiddenInput(s, b) ==
    IF b = "desktop" THEN Get(s, "hidden")
    ELSE Get(OverrideOrEmpty(s, b), "hidden")

\* the settings objects that hold nothing but hidden flags
HiddenVariants ==
    {s \in SettingsObjects :
        /\ "backgroundColor" \notin DOMAIN s
        /\ \A b \in {"tablet", "mobile"} :
              "backgroundColor" \notin DOMAIN OverrideOrEmpty(s, b)}

MobileHiddenOnly ==
    Spread([backgroundColor |-> Val("#fff")],
           [responsive |-> [mobile |-> [hidden |-> Val(TRUE)]]])

\* C12: isHidden is independent per breakpoint.  At desktop the result is
\* s.hidden (false when absent) and two settings objects with the same
\* s.hidden give the same result; at tablet or mobile it is the hidden of
\* that breakpoint's override (false when absent), whatever s.hidden and the
\* other override hold: every settings object of HiddenVariants that agrees
\* with s on that one input gives the same result.
C12_HiddenIndependent ==
    (lastMerge.op \in {"isHidden", "isHiddenForBreakpoint"}
     /\ lastMerge.settings # undefined) =>
        LET s == lastMerge.settings
            b == lastMerge.breakpoint
            r == lastMerge.result
        IN /\ r = (HiddenInput(s, b) = Val(TRUE))
           /\ \A s2 \in HiddenVariants :
                 HiddenInput(s2, b) = HiddenInput(s, b) =>
                    /\ isHiddenForBreakpoint(s2, b) = r
                    /\ b = currentBreakpoint => isHidden(s2) = r
           /\ s = MobileHiddenOnly => r = (b = "mobile")

\* at tablet, an element hidden at desktop and at mobile is not hidden
C12_Witness ==
    /\ lastMerge.op = "isHidden"
    /\ lastMerge.breakpoint = "tablet"
    /\ lastMerge.settings # undefined
    /\ Get(lastMerge.settings, "hidden") = Val(TRUE)
    /\ Get(OverrideOrEmpty(lastMerge.settings, "mobile"), "hidden") = Val(TRUE)
    /\ Get(OverrideOrEmpty(lastMerge.settings, "tablet"), "hidden") = undefined
    /\ lastMerge.result = FALSE

\* C13: shouldStack is false at desktop; at tablet it is
\* settings.stackOnTablet, false when absent or settings is undefined; at
\* mobile it is settings.stackOnMobile, true when absent or settings is
\* undefined.
C13_ShouldStack ==
    lastMerge.op = "shouldStack" =>
        LET s == lastMerge.settings
            b == lastMerge.breakpoint
            r == lastMerge.result
        IN CASE b = "desktop" -> r = FALSE
             [] b = "tablet" ->
                   r = IF s # undefined /\ "stackOnTablet" \in DOMAIN s
                       THEN s.stackOnTablet.val ELSE FALSE
             [] b = "mobile" ->
                   r = IF s # undefined /\ "stackOnMobile" \in DOMAIN s
                       THEN s.stackOnMobile.val ELSE TRUE

\* shouldStack(undefined) at mobile is true
C13_Witness ==
    /\ lastMerge.op = "shouldStack"
    /\ lastMerge.breakpoint = "mobile"
    /\ lastMerge.settings = undefined
    /\ lastMerge.result = TRUE

\* the breakpoint of a viewport, by the documented width ranges
Classified ==
    IF window = undefined THEN "desktop"
    ELSE CHOOSE b \in Breakpoints :
            \/ b = "desktop" /\ window.innerWidth >= 1200
            \/ b = "tablet" /\ window.innerWidth >= 768 /\ window.innerWidth <= 1199
            \/ b = "mobile" /\ window.innerWidth <= 767

Installed == window # undefined /\ "handleResize" \in window.resizeListeners

\* C15: the shared resize listener is reference-counted.  The count equals
\* the number of attached consumers and is never negative; where there is a
\* window the listener is installed exactly while at least one consumer is
\* attached: the step that installs it attaches the first consumer and
\* finds no listener installed, the step that removes it detaches the last.
C15_ListenerRefCounted ==
    /\ [](listenerCount = Cardinality(mounted) /\ listenerCount >= 0)
    /\ [](window # undefined => (Installed <=> mounted # {}))
    /\ [](isInitialized <=> Installed)
    /\ [][(~isInitialized /\ isInitialized') =>
             (~Installed /\ mounted = {} /\ Cardinality(mounted') = 1)]_vars
    /\ [][(Installed /\ ~Installed') =>
             (mounted # {} /\ mounted' = {})]_vars

\* two consumers are attached and one listener is installed
C15_Witness ==
    /\ Cardinality(mounted) = 2
    /\ listenerCount = 2
    /\ Installed
    /\ isInitialized

\* C16: whenever a consumer is attached and no resize event is pending, the
\* shared current breakpoint is the classification of the live viewport
\* width.
C16_BreakpointFollowsViewport ==
    (mounted # {} /\ ~resizePending) => currentBreakpoint = Classified

\* a consumer is attached, the viewport is 768 wide and the breakpoint is
\* tablet
C16_Witness ==
    /\ mounted # {}
    /\ ~resizePending
    /\ window # undefined
    /\ window.innerWidth = 768
    /\ currentBreakpoint = "tablet"

RECURSIVE FilledEncoded(_, _)
\* the parts with every {name} replaced by the URL-encoded value of name
FilledEncoded(parts, kv) ==
    IF parts = <<>> THEN <<>>
    ELSE (IF Head(parts).k = "ch" THEN <<Head(parts).c>>
          ELSE encodeURIComponent(Prop(kv, Head(parts).name).s))
         \o FilledEncoded(Tail(parts), kv)

\* s holds no {name} token
NoPlaceholder(s) == PlaceholderNames(PatternParts(s)) = <<>>

\* C17: buildUrl(code, params) for an entry with a pattern returns null
\* whenever a placeholder of the pattern has a missing or empty value;
\* otherwise the result is the pattern with each occurrence of each
\* placeholder, repeated names included, replaced by the URL-encoded value,
\* and it holds no {name} placeholder.
C17_BuildUrlPlaceholders ==
    (lastCall.op = "buildUrl" /\ lastCall.wasLoaded) =>
        LET c == lastCall.pageCode
            r == lastCall.result
            i == FindPage(c)
        IN (/\ ~(homepage # null /\ homepage.code = c)
            /\ i # 0
            /\ ~IsStatic(i)) =>
               LET parts == PatternParts(pages[i].pattern.s)
                   names == PlaceholderNames(parts)
                   missing == \E n \in 1..Len(names) :
                                 Prop(lastCall.params.o, names[n])
                                    \in {undefined, null, Str(<<>>)}
               IN /\ missing => r = null
                  /\ ~missing => r = Str(FilledEncoded(parts, lastCall.params.o))
                  /\ r # null => NoPlaceholder(r.s)

\* a pattern that names x twice, built with a value that needs encoding
C17_Witness ==
    /\ lastCall.op = "buildUrl"
    /\ lastCall.wasLoaded
    /\ lastCall.pageCode = "twice"
    /\ lastCall.params = Obj(<< <<<<"x">>, Str(<<"a", " ", "b">>)>> >>)
    /\ lastCall.result
          = Str(<<"/", "a", "%", "2", "0", "b", "/", "a", "%", "2", "0", "b">>)

LangName == <<"l", "a", "n", "g">>
SlugName == <<"s", "l", "u", "g">>
EntryIdName == <<"e", "n", "t", "r", "y", "_", "i", "d">>

\* the entry's value of the field the collection configures for slug
SlugField(collection, entry) ==
    IF collection.entry_url_field \in {null, undefined, Str(<<>>)}
       \/ entry.data \in {null, undefined}
    THEN undefined
    ELSE Prop(entry.data.o, collection.entry_url_field.s)

\* the placeholder has nothing to resolve to: no configured field or no
\* value of it for slug, no identifier for entry_id, no data field of that
\* name for any other name
Unresolvable(param, collection, entry) ==
    CASE param = LangName -> FALSE
      [] param = SlugName ->
            SlugField(collection, entry) \in {undefined, null, Str(<<>>)}
      [] param = EntryIdName ->
            entry.entry_id \in {undefined, null, Str(<<>>)}
      [] OTHER ->
            \/ entry.data \in {null, undefined}
            \/ Prop(entry.data.o, param) \in {undefined, null, Str(<<>>)}

\* C18: buildEntryUrl resolves lang to the language passed, slug to the
\* collection's configured field on the entry, entry_id to the entry's
\* identifier and any other name to the entry's data field of that name; it
\* returns null when a placeholder cannot be resolved, slug with a missing
\* or empty configured field included, and never a URL with a placeholder
\* left in.
C18_EntryUrlResolved ==
    (lastCall.op = "buildEntryUrl" /\ lastCall.wasLoaded) =>
        LET i == FindCollection(lastCall.collectionCode)
            r == lastCall.result
        IN (i # 0 /\ collections[i].entry_url_pattern \notin {null, Str(<<>>)}) =>
              LET names == PlaceholderNames(
                              PatternParts(collections[i].entry_url_pattern.s))
              IN /\ (\E n \in 1..Len(names) :
                        Unresolvable(names[n], collections[i], lastCall.entry))
                       => r = null
                 /\ r # null => NoPlaceholder(r.s)

\* the value extractMultilingualValue gives a placeholder: the language,
\* the localized slug field, the data field localized when it is a mapping
LibraryValue(param, collection, entry, language) ==
    CASE param = LangName -> Str(language)
      [] param = SlugName ->
            extractMultilingualValue(SlugField(collection, entry), language)
      [] OTHER ->
            IF entry.data \in {null, undefined} THEN undefined
            ELSE LET v == Prop(entry.data.o, param)
                 IN IF v \in {undefined, null} THEN undefined
                    ELSE extractMultilingualValue(v, language)

\* C19: the multilingual fallback of buildEntryUrl for a language-keyed
\* value v and language L is v[L] when that key is present, else the
\* default language's value when present, else the first value: the result
\* of extractMultilingualValue(v, L).  So for a slug field holding such a
\* mapping the URL built is the one built from the library's value, null
\* when that value is empty.
C19_MultilingualFallback ==
    (lastCall.op = "buildEntryUrl" /\ lastCall.wasLoaded) =>
        LET i == FindCollection(lastCall.collectionCode)
            r == lastCall.result
            e == lastCall.entry
            l == lastCall.language
        IN (/\ i # 0
            /\ collections[i].entry_url_pattern \notin {null, Str(<<>>)}
            /\ SlugField(collections[i], e) \notin {undefined, null}
            /\ SlugField(collections[i], e).t = "object") =>
              LET parts == PatternParts(collections[i].entry_url_pattern.s)
                  names == PlaceholderNames(parts)
                  kv == [n \in 1..Len(names) |->
                           <<names[n],
                             LibraryValue(names[n], collections[i], e, l)>>]
              IN (/\ SlugName \in {names[n] : n \in 1..Len(names)}
                  /\ EntryIdName \notin {names[n] : n \in 1..Len(names)}) =>
                    r = IF \E n \in 1..Len(kv) :
                              kv[n][2] \in {undefined, null, Str(<<>>)}
                        THEN null
                        ELSE Str(FilledEncoded(parts, kv))

\* C20: the params of a ResolvedRoute hold decoded values.  When resolve is
\* given the URL buildUrl made and returns the same entry, a captured value
\* that is the URL-encoding of the value given is returned as that value
\* itself; homepage and static matches have the empty mapping.
C20_DecodedParams ==
    /\ (lastCall.op = "resolve" /\ lastCall.wasLoaded
        /\ IsRoute(lastCall.result)) =>
          LET p == normalizePath(lastCall.path)
          IN (HomeMatches(p) \/ \E i \in 1..Len(pages) : StaticMatches(i, p))
                => lastCall.result.params = NoParams
    /\ (lastCall.op = "resolveBuilt" /\ IsRoute(lastCall.result)
        /\ lastCall.result.pageCode = lastCall.pageCode) =>
          \A n \in 1..Len(lastCall.result.params.o) :
             LET name == lastCall.result.params.o[n][1]
                 v == lastCall.result.params.o[n][2]
                 x == Prop(lastCall.params.o, name)
             IN (x # undefined /\ v # undefined
                 /\ v.s = encodeURIComponent(x.s)) => v = x


(***************************************************************************)
(* C21  Once the instance is loaded it stays loaded and homepage, pages    *)
(* and collections keep the loaded values, whatever loadRoutes, resolve,   *)
(* buildUrl and buildEntryUrl calls follow; so the result recorded for a   *)
(* resolve call made on the loaded instance is what resolve returns for    *)
(* the same path in every later state.                                     *)
(***************************************************************************)
C21_ImmutableOnceLoaded ==
    /\ [][isLoaded =>
            /\ isLoaded'
            /\ homepage' = homepage
            /\ pages' = pages
            /\ collections' = collections]_vars
    /\ [][(lastCall' # lastCall /\ lastCall'.op \in ReadOps)
            => UNCHANGED <<routeVars, asyncVars>>]_vars
    /\ []((lastCall.op = "resolve" /\ lastCall.wasLoaded)
            => lastCall.result = resolve(lastCall.path))

\* a loadRoutes call was made on a loaded instance after a path had been
\* resolved to a route
C21_Witness ==
    /\ isLoaded
    /\ lastCall.op = "resolve"
    /\ lastCall.wasLoaded
    /\ IsRoute(lastCall.result)
    /\ microtasks # <<>>
    /\ fetches = {}


\* the override object of breakpoint b is missing from s: s has no
\* responsive key (or a null one), or responsive has no entry for b
NoOverride(s, b) ==
    \/ "responsive" \notin DOMAIN s
    \/ s.responsive = null
    \/ b \notin DOMAIN s.responsive

(***************************************************************************)
(* C22  getValue, getMergedSettings, isHidden and shouldStack return a     *)
(* value for incomplete settings and raise nothing: for undefined settings *)
(* the default, the empty object, false and the stacking default; for      *)
(* settings without responsive or without responsive[breakpoint] the       *)
(* desktop value or the default, the desktop settings alone, and false;    *)
(* for a missing property the default.  A call changes neither the         *)
(* viewport, the shared breakpoint nor the listener bookkeeping.           *)
(***************************************************************************)
C22_TotalAndPure ==
    /\ [](LET s == lastMerge.settings
              b == lastMerge.breakpoint
              r == lastMerge.result
          IN CASE lastMerge.op = "getValue" ->
                    LET p == lastMerge.property
                        d == lastMerge.defaultValue
                    IN /\ "tag" \notin DOMAIN r
                       /\ s = undefined => r = d
                       /\ (s # undefined /\ (b = "desktop" \/ NoOverride(s, b)))
                             => r = NullishOr(Field(s, p), d)
                       /\ (s # undefined /\ p \notin DOMAIN s
                           /\ p \notin DOMAIN OverrideOrEmpty(s, b)) => r = d
                [] lastMerge.op = "getMergedSettings" ->
                    /\ DOMAIN r \subseteq Properties \cup {"responsive"}
                    /\ s = undefined => r = EmptyObject
                    /\ (s # undefined /\ (b = "desktop" \/ NoOverride(s, b)))
                          => r = s
                [] lastMerge.op = "isHidden" ->
                    /\ r \in BOOLEAN
                    /\ s = undefined => r = FALSE
                    /\ (s # undefined /\ b # "desktop" /\ NoOverride(s, b))
                          => r = FALSE
                    /\ (s # undefined /\ b = "desktop" /\ "hidden" \notin DOMAIN s)
                          => r = FALSE
                [] lastMerge.op = "shouldStack" ->
                    /\ r \in BOOLEAN
                    /\ s = undefined => r = (b = "mobile")
                    /\ (s # undefined /\ b = "tablet"
                        /\ "stackOnTablet" \notin DOMAIN s) => r = FALSE
                    /\ (s # undefined /\ b = "mobile"
                        /\ "stackOnMobile" \notin DOMAIN s) => r = TRUE
                [] OTHER -> TRUE)
    /\ [][lastMerge' # lastMerge => UNCHANGED viewVars]_vars

\* at tablet, settings without a responsive key are merged: the result is
\* the desktop settings alone
C22_Witness ==
    /\ lastMerge.op = "getMergedSettings"
    /\ lastMerge.breakpoint = "tablet"
    /\ lastMerge.settings # undefined
    /\ DOMAIN lastMerge.settings = {"backgroundColor", "hidden"}
    /\ lastMerge.result = lastMerge.settings

(***************************************************************************)
(* C23  The routes payload is fetched at most once per session: while no   *)
(* request has failed, at most one api.getRoutes() request has been issued *)
(* by all the renderers together, however many of them call loadRoutes     *)
(* and however often they are mounted.                                     *)
(***************************************************************************)
C23_OneFetchPerSession ==
    routeRequests.failed = 0 => routeRequests.issued <= 1

\* the breakpoints as documented: desktop above 1024px, tablet from 768px
\* to 1024px, mobile below 768px
Documented(width) ==
    IF width > 1024 THEN "desktop"
    ELSE IF width >= 768 THEN "tablet"
    ELSE "mobile"

(***************************************************************************)
(* C24  The detector follows the documented breakpoints: with a consumer   *)
(* attached and no resize event waiting, the breakpoint detected for a     *)
(* viewport wider than 1024px is desktop, for a width from 768px to 1024px *)
(* tablet, and for a width below 768px mobile.                             *)
(***************************************************************************)
C24_DocumentedBreakpoints ==
    (window # undefined /\ mounted # {} /\ ~resizePending) =>
        /\ detectBreakpoint = Documented(window.innerWidth)
        /\ currentBreakpoint = Documented(window.innerWidth)

(***************************************************************************)
(* C25  Once no resolvePage invocation is pending and the table is loaded, *)
(* notFound is true exactly when resolve(route.path) is null, and          *)
(* resolvedRoute is non-null exactly when notFound is false and then is    *)
(* resolve(route.path): a path that matches a route is not shown as 404.   *)
(***************************************************************************)
C25_DisplayConsistent ==
    (/\ dynamicPage # NotCreated
     /\ isLoaded
     /\ \A c \in Callers : pc[c] = "idle") =>
        /\ dynamicPage.notFound <=> resolve(dynamicPage.path) = null
        /\ dynamicPage.resolvedRoute # null <=> ~dynamicPage.notFound
        /\ dynamicPage.resolvedRoute # null =>
              dynamicPage.resolvedRoute = resolve(dynamicPage.path)

(***************************************************************************)
(* C26  Every load that started a fetch ends: isLoading leads to a state   *)
(* where isLoading is false and exactly one of isLoaded and error is set,  *)
(* provided the request settles; and isLoading is true in no state where   *)
(* the request has settled, a malformed payload included.                  *)
(***************************************************************************)
C26_LoadingEnds ==
    /\ isLoading ~> (~isLoading /\ (isLoaded <=> error = null))
    /\ [](fetches = {} => ~isLoading)
    /\ []((fetchCount > 0 /\ ~isLoading) => (isLoaded <=> error = null))

\* a malformed payload was received and a later load succeeded
C26_Witness ==
    /\ fetchCount = 2
    /\ lastCall.op = "loadRoutes"
    /\ lastCall.error # null
    /\ lastCall.error # LoadError
    /\ ~isLoading
    /\ isLoaded
    /\ error = null

(***************************************************************************)
(* C27  At a fixed breakpoint, for every settings object s, also one whose *)
(* override holds a responsive key: getMergedSettings(getMergedSettings(s))*)
(* is getMergedSettings(s), and isHidden(getMergedSettings(s)) is          *)
(* isHidden(s).                                                            *)
(***************************************************************************)
C27_MergeIdempotent ==
    lastMerge.op = "mergeMerged" =>
        /\ lastMerge.result = lastMerge.merged
        /\ lastMerge.hiddenOfMerged = lastMerge.hidden

(***************************************************************************)
(* C28  getValue agrees with getMergedSettings at every breakpoint: for    *)
(* every settings object s, also one whose override holds null or an       *)
(* explicitly undefined value, every property p and default d,             *)
(* getValue(s, p, d) is getMergedSettings(s)[p] when that is neither null  *)
(* nor undefined, and d otherwise.                                         *)
(***************************************************************************)
C28_ValueAgreesWithMerge ==
    lastMerge.op = "getValue" =>
        LET merged == Field(getMergedSettings(lastMerge.settings),
                            lastMerge.property)
        IN lastMerge.result =
              IF merged \in {null, undefined} THEN lastMerge.defaultValue
              ELSE merged

(***************************************************************************)
(* C29  useCollection shows the data of the latest request: when every     *)
(* request has settled and none has failed, entries and meta are those of  *)
(* the response for the current (code, page), whatever the order of the    *)
(* responses; and loading is true in every state with a request in flight. *)
(***************************************************************************)
C29_LatestRequestWins ==
    (collectionView # NotCreated /\ collectionView.code # <<>>) =>
        /\ (collectionView.inflight = {} /\ collectionView.error = null) =>
              /\ collectionView.entries =
                    EntriesOf(collectionView.code, collectionView.page)
              /\ collectionView.meta = MetaOf(collectionView.code)
        /\ collectionView.inflight # {} => collectionView.loading

(***************************************************************************)
(* C30  The class lcms-anim--visible follows the once flag: with once      *)
(* true it is present exactly when some reported entry was intersecting    *)
(* (from the first one onwards, never removed); with once false it is      *)
(* present exactly while the latest reported entry is intersecting, so it  *)
(* is removed when the element leaves the viewport.                        *)
(***************************************************************************)
C30_VisibleFollowsOnce ==
    \A w \in Widgets :
        scrollAnimation[w] # NotCreated =>
            IF scrollAnimation[w].once
            THEN animVisible(w) <=> scrollAnimation[w].everIntersecting
            ELSE animVisible(w) <=> scrollAnimation[w].latest = "intersecting"

=============================================================================
